---------------------------- MODULE Spec2Model ----------------------------
(***************************************************************************)
(* Verification model of the PN532 MIFARE Ultralight reader               *)
(* (read_mifare_ultralight_tag_ and its helpers) and of the water-meter   *)
(* report decoder (the pn532_i2c on_tag lambda).                           *)
(*                                                                         *)
(* Bytes are naturals 0..255.  C++ vectors are sequences; the C++ index i *)
(* is the TLA+ index i + 1 (operator At).  Text is a sequence of          *)
(* one-character strings.                                                  *)
(***************************************************************************)
EXTENDS Naturals, Integers, Sequences, FiniteSets, TLC

(***************************************************************************)
(* Program constants (nfc_util.h).                                         *)
(***************************************************************************)
MIFARE_ULTRALIGHT_PAGE_SIZE == 4
MIFARE_ULTRALIGHT_READ_SIZE == 4
MIFARE_ULTRALIGHT_DATA_START_PAGE == 4

\* const uint8_t p4_offset = nfc::MIFARE_ULTRALIGHT_PAGE_SIZE
p4_offset == MIFARE_ULTRALIGHT_PAGE_SIZE

(***************************************************************************)
(* Vector helpers.                                                         *)
(***************************************************************************)
\* v[i] of a C++ vector (0-based)
At(v, i) == v[i + 1]

\* std::vector<uint8_t>(v.begin() + from, v.begin() + to): the bytes [from, to)
Slice(v, from, to) == IF to <= from THEN << >> ELSE SubSeq(v, from + 1, to)

Min(a, b) == IF a < b THEN a ELSE b
Max(a, b) == IF a > b THEN a ELSE b

(***************************************************************************)
(* TlvLocator: PN532::find_mifare_ultralight_ndef_                         *)
(* The result record is (ok, message_length, message_start_index); the two *)
(* out-parameters are written only on the paths that return true.          *)
(***************************************************************************)
NotFound == [ok |-> FALSE, message_length |-> 0, message_start_index |-> 0]
Found(len, start) == [ok |-> TRUE, message_length |-> len, message_start_index |-> start]

\* mutant of SecondTlv: the plausibility bound on the second TLV is dropped
SecondTlvNoBound(second_tlv_length) ==
    IF second_tlv_length > 0
        THEN Found(second_tlv_length, 4)
        ELSE Found(255, 2)

\* "03 FF 03 xx": two adjacent TLVs, use the second one if its length is plausible
SecondTlv(second_tlv_length) ==
    IF second_tlv_length > 0 /\ second_tlv_length <= 100
        THEN Found(second_tlv_length, 4)
        ELSE Found(255, 2)

\* mutant of ExtendedLength: the lower bound of the extended range reads 528
ExtendedLengthNarrow(potential_high_byte, potential_low_byte) ==
    LET potential_length == (potential_high_byte * 256 + potential_low_byte) % 65536
    IN  IF potential_length > 528 /\ potential_length <= 924
            THEN Found(potential_length, 4)
            ELSE Found(255, 2)

\* mutant of ExtendedLength: the lower bound of the extended range is dropped
ExtendedLengthNoFloor(potential_high_byte, potential_low_byte) ==
    LET potential_length == (potential_high_byte * 256 + potential_low_byte) % 65536
    IN  IF potential_length <= 924
            THEN Found(potential_length, 4)
            ELSE Found(255, 2)

\* "03 FF HH LL": extended length when the 16-bit value makes sense
ExtendedLength(potential_high_byte, potential_low_byte) ==
    LET potential_length == (potential_high_byte * 256 + potential_low_byte) % 65536
    IN  IF potential_length > 254 /\ potential_length <= 924
            THEN Found(potential_length, 4)
            ELSE Found(255, 2)

\* byte 1 is 0xFF: literal 255, extended length, or two adjacent TLVs
AmbiguousLength(page_3_to_6) ==
    IF Len(page_3_to_6) < p4_offset + 4
        THEN NotFound
        ELSE LET potential_high_byte == At(page_3_to_6, p4_offset + 2)
                 potential_low_byte == At(page_3_to_6, p4_offset + 3)
             IN  IF potential_high_byte = 3
                     THEN SecondTlv(potential_low_byte)
                     ELSE ExtendedLength(potential_high_byte, potential_low_byte)

\* mutant of FixedLength: the header is taken to be four bytes long
FixedLengthLongHeader(page_3_to_6) ==
    Found(At(page_3_to_6, p4_offset + 1), 4)

\* fixed length: byte 0 = 0x03; byte 1 = Length
FixedLength(page_3_to_6) ==
    Found(At(page_3_to_6, p4_offset + 1), 2)

\* mutant of find_mifare_ultralight_ndef_: byte 5 is looked at before byte 0
find_byte_5_first(page_3_to_6) ==
    IF ~(Len(page_3_to_6) > p4_offset + 5)
        THEN NotFound
        ELSE IF At(page_3_to_6, p4_offset + 5) = 3
            THEN IF Len(page_3_to_6) < p4_offset + 7
                    THEN NotFound
                    ELSE Found(At(page_3_to_6, p4_offset + 6), 7)
            ELSE IF At(page_3_to_6, p4_offset + 0) = 3
                THEN IF At(page_3_to_6, p4_offset + 1) = 255
                        THEN AmbiguousLength(page_3_to_6)
                        ELSE FixedLength(page_3_to_6)
                ELSE NotFound

find_mifare_ultralight_ndef_(page_3_to_6) ==
    IF ~(Len(page_3_to_6) > p4_offset + 5)
        THEN NotFound
        ELSE IF At(page_3_to_6, p4_offset + 0) = 3
            THEN IF At(page_3_to_6, p4_offset + 1) = 255
                    THEN AmbiguousLength(page_3_to_6)
                    ELSE FixedLength(page_3_to_6)
            ELSE IF At(page_3_to_6, p4_offset + 5) = 3
                THEN IF Len(page_3_to_6) < p4_offset + 7
                        THEN NotFound
                        ELSE Found(At(page_3_to_6, p4_offset + 6), 7)
                ELSE NotFound

(***************************************************************************)
(* State.                                                                  *)
(***************************************************************************)
VARIABLES
    pc,                   \* position of the reader / of the event loop
    tag,                  \* the tag in the field (index into TagBody), 0 when none
    data,                 \* std::vector<uint8_t> data of read_mifare_ultralight_tag_
    message_length,       \* uint16_t message_length
    message_start_index,  \* uint8_t message_start_index
    target_read_length,   \* uint16_t target_read_length
    chunk_idx,            \* position in chunk_sizes = {32, 16, 8}
    bytes_read,           \* uint16_t bytes_read of the chunked retry
    current_page,         \* uint8_t current_page
    success,              \* bool success of the chunked retry
    record_start,         \* size_t record_start = ndef_record_starts[0]
    expected_total_size,  \* uint32_t expected_total_size
    combined_inner_data,  \* std::vector<uint8_t> combined_inner_data
    found_inner_tlv,      \* bool found_inner_tlv
    ret,                  \* the return statement the reader left through
    read_failed,          \* some read_mifare_ultralight_bytes_ call of this event returned false
    payload,              \* records[0]->get_payload() of the tag last handed to on_tag
    published,            \* the publish_state calls of the last run of the on_tag lambda
    water_meter_json,     \* state of the text sensor water_meter_json
    water_volume,         \* state of the sensor water_volume
    first_outcome         \* history variable: the calls of the first decode of each payload

chunk_vars == <<chunk_idx, bytes_read, current_page, success>>
record_vars == <<record_start, expected_total_size, combined_inner_data, found_inner_tlv>>
reader_vars == <<tag, data, message_length, message_start_index, target_read_length,
                 chunk_vars, record_vars, ret, read_failed>>

app_vars == <<payload, published, water_meter_json, water_volume>>
vars == <<pc, reader_vars, app_vars, first_outcome>>

\* every variable but pc, data and the two locator outputs, as it is before a tag is read
RestInit ==
    /\ tag = 0
    /\ target_read_length = 0
    /\ chunk_idx = 0
    /\ bytes_read = 0
    /\ current_page = 0
    /\ success = FALSE
    /\ record_start = 0
    /\ expected_total_size = 0
    /\ combined_inner_data = << >>
    /\ found_inner_tlv = FALSE
    /\ ret = "none"
    /\ read_failed = FALSE

(***************************************************************************)
(* Tags.  A tag is its memory from page 4 on; page 3 is the capability     *)
(* container and bytes past the listed ones read as 0.                      *)
(***************************************************************************)
\* page 3: the capability container E1 10 12 00
Page3 == <<225, 16, 18, 0>>

\* D1 01 08 54 02 65 6E 41 42 43 44 45: a complete short text record of 12 bytes
TextRecord == <<209, 1, 8, 84, 2, 101, 110, 65, 66, 67, 68, 69>>

\* a run of n bytes b
Fill(b, n) == [k \in 1..n |-> b]

TagBody == <<
    <<3, 12>> \o TextRecord \o <<254>>,                        \* 1: 03 0C record FE
    <<255, 255, 255, 255>>,                                    \* 2: page 4 blank
    <<0, 0, 0, 0, 0, 0, 0, 0>>,                                \* 3: no TLV
    <<3, 0, 254>>,                                             \* 4: empty NDEF TLV
    <<3, 255, 3, 12>> \o TextRecord \o <<254>>,                \* 5: 03 FF 03 0C record
    <<3, 255, 1, 44, 193, 1, 0, 0, 1, 40, 84>> \o Fill(65, 293), \* 6: extended length 300
    <<3, 255, 2, 0>> \o Fill(65, 400),                         \* 7: extended length 512
    <<1, 3, 160, 12, 52, 3, 12>> \o TextRecord \o <<254>>,     \* 8: lock control TLV first
    <<3, 1, 65, 254>>,                                         \* 9: one-byte message
    <<3, 3, 65, 66, 67, 254>>,                                 \* 10: three-byte message
    <<3, 10, 0, 0, 3, 4, 65, 66, 67, 68, 0, 0, 254>>,          \* 11: inner TLV only
    <<3, 6, 209, 1, 32, 84, 2, 101, 110>> \o Fill(66, 40),     \* 12: record longer than its TLV
    <<3, 8, 0, 0, 0, 0, 0, 0, 0, 0, 254>>,                     \* 13: message of zeros
    <<3, 3>> \o TextRecord \o <<254>>,                         \* 14: TLV ends behind the record header
    <<3, 14, 0, 0>> \o TextRecord \o <<254>>,                  \* 15: record behind two zero bytes
    <<3, 6, 209, 1, 128, 84, 2, 101, 110>> \o Fill(66, 140),   \* 16: long record, short TLV
    <<3, 12, 3, 4, 65, 66, 67, 68, 3, 4, 17, 0, 200, 0, 254>>, \* 17: two inner TLVs, a header in the second
    [k \in 1..400 |-> k % 251]                                 \* 18: no TLV, every page different
>>

TagIds == 1..Len(TagBody)

\* the memory of each tag from page 3 on
TagImages == [t \in TagIds |-> Page3 \o TagBody[t]]

TagImage(t) == TagImages[t]

\* the byte at offset off from the start of page 3
Mem(t, off) == IF off >= 0 /\ off < Len(TagImage(t)) THEN At(TagImage(t), off) ELSE 0

\* the answer to MIFARE_CMD_READ page: status 0x00 and four pages
Response(t, page) ==
    <<0>> \o [j \in 1..(MIFARE_ULTRALIGHT_READ_SIZE * MIFARE_ULTRALIGHT_PAGE_SIZE) |->
                Mem(t, (page - 3) * MIFARE_ULTRALIGHT_PAGE_SIZE + j - 1)]

(***************************************************************************)
(* PageReader: PN532::read_mifare_ultralight_bytes_                        *)
(* failAt is the exchange (0-based) at which write_command_ or             *)
(* read_response fails or the status byte is not 0x00; an exchange number  *)
(* the loop never reaches means no failure.                                 *)
(***************************************************************************)
read_increment == MIFARE_ULTRALIGHT_READ_SIZE * MIFARE_ULTRALIGHT_PAGE_SIZE

\* the number of exchanges of a call that does not fail
Exchanges(num_bytes) == (num_bytes + read_increment - 1) \div read_increment

\* mutant of AppendExchange: the last exchange is taken whole
AppendWholeExchange(buf, response, i, num_bytes) == buf \o Slice(response, 1, Len(response))

\* what one successful exchange appends to data
AppendExchange(buf, response, i, num_bytes) ==
    LET bytes_offset == ((i + 1) * read_increment) % 65536
        pages_in_end == IF bytes_offset <= num_bytes
                            THEN Len(response)
                            ELSE Len(response) - (bytes_offset - num_bytes)
    IN  IF pages_in_end > 0 /\ pages_in_end <= Len(response)
            THEN buf \o Slice(response, 1, pages_in_end)
            ELSE buf

RECURSIVE ReadLoop(_, _, _, _, _, _)
ReadLoop(t, start_page, num_bytes, buf, i, failAt) ==
    IF ~(i * read_increment < num_bytes)
        THEN [ok |-> TRUE, data |-> buf]
        ELSE IF i = failAt
            THEN [ok |-> FALSE, data |-> buf]
            ELSE ReadLoop(t, start_page, num_bytes,
                          AppendExchange(buf,
                                         Response(t, (i * MIFARE_ULTRALIGHT_READ_SIZE + start_page) % 256),
                                         i, num_bytes),
                          i + 1, failAt)

read_mifare_ultralight_bytes_(t, start_page, num_bytes, buf, failAt) ==
    ReadLoop(t, start_page, num_bytes, buf, 0, failAt)

\* the outcomes of a call: failure at exchange 0 .. n-1, or no failure (n)
Outcomes(num_bytes) == 0..Exchanges(num_bytes)

is_mifare_ultralight_formatted_(page_3_to_6) ==
    /\ Len(page_3_to_6) > p4_offset + 3
    /\ \/ At(page_3_to_6, p4_offset + 0) # 255
       \/ At(page_3_to_6, p4_offset + 1) # 255
       \/ At(page_3_to_6, p4_offset + 2) # 255
       \/ At(page_3_to_6, p4_offset + 3) # 255

\* std::vector::resize(n): truncate, or pad with zero bytes
Resize(v, n) == IF n <= Len(v) THEN SubSeq(v, 1, n) ELSE v \o Fill(0, n - Len(v))

(***************************************************************************)
(* MessageAssembler: PN532::read_mifare_ultralight_tag_ (part_001)         *)
(***************************************************************************)
chunk_sizes == <<32, 16, 8>>

\* const uint8_t read_length = message_length + message_start_index > 12 ? ... - 12 : 0
ReadLength(ml, msi) == IF ml + msi > 12 THEN (ml + msi - 12) % 256 ELSE 0

\* the floor of the bulk read: "Start with 300 bytes for complex tags"
target_floor == 300

\* std::max((uint16_t) read_length, (uint16_t) 300)
TargetReadLength(read_length) == Max(read_length, target_floor)

\* the locals of read_mifare_ultralight_tag_ other than data do not exist
LocalsGone ==
    /\ message_length' = 0 /\ message_start_index' = 0 /\ target_read_length' = 0
    /\ chunk_idx' = 0 /\ bytes_read' = 0 /\ current_page' = 0 /\ success' = FALSE
    /\ record_start' = 0 /\ expected_total_size' = 0
    /\ combined_inner_data' = << >> /\ found_inner_tlv' = FALSE

\* return make_unique<nfc::NfcTag>(uid, nfc::NFC_FORUM_TYPE_2): a tag without payload
ReturnEmpty(site) ==
    /\ pc' = "returned"
    /\ ret' = site
    /\ data' = << >>
    /\ LocalsGone

\* a tag enters the field: the read of pages 3..6, the format check, the locator
ReadInitial(t, failAt) ==
    /\ pc = "idle"
    /\ tag' = t
    /\ LET r == read_mifare_ultralight_bytes_(t, 3, MIFARE_ULTRALIGHT_PAGE_SIZE * MIFARE_ULTRALIGHT_READ_SIZE, << >>, failAt)
           f == find_mifare_ultralight_ndef_(r.data)
       IN  /\ read_failed' = ~r.ok
           /\ IF ~r.ok THEN ReturnEmpty("read_failed")
              ELSE IF ~is_mifare_ultralight_formatted_(r.data) THEN ReturnEmpty("not_formatted")
              ELSE IF ~f.ok THEN ReturnEmpty("no_ndef")
              ELSE IF f.message_length = 0 THEN ReturnEmpty("empty")
              ELSE /\ pc' = "bulk"
                   /\ ret' = "none"
                   /\ data' = r.data
                   /\ message_length' = f.message_length
                   /\ message_start_index' = f.message_start_index
                   /\ target_read_length' =
                        TargetReadLength(ReadLength(f.message_length, f.message_start_index))
                   /\ chunk_idx' = 0 /\ bytes_read' = 0 /\ current_page' = 0 /\ success' = FALSE
                   /\ record_start' = 0 /\ expected_total_size' = 0
                   /\ combined_inner_data' = << >> /\ found_inner_tlv' = FALSE
    /\ UNCHANGED <<app_vars, first_outcome>>

\* mutant of BulkRead: a failed bulk read ends the reconstruction
BulkReadAborts(failAt) ==
    /\ pc = "bulk"
    /\ LET r == read_mifare_ultralight_bytes_(tag, MIFARE_ULTRALIGHT_DATA_START_PAGE + 3, target_read_length, data, failAt)
       IN  IF r.ok
            THEN /\ data' = r.data
                 /\ pc' = "trim"
                 /\ UNCHANGED <<chunk_vars, read_failed, message_length, message_start_index,
                                target_read_length, record_vars, ret>>
            ELSE /\ read_failed' = TRUE
                 /\ ReturnEmpty("bulk_failed")
    /\ UNCHANGED <<app_vars, first_outcome, tag>>

\* the bulk read of target_read_length bytes from page 7; the call appends to data
\* as its exchanges succeed, so after a failure data holds what the exchanges
\* before the failing one delivered
BulkRead(failAt) ==
    /\ pc = "bulk"
    /\ LET r == read_mifare_ultralight_bytes_(tag, MIFARE_ULTRALIGHT_DATA_START_PAGE + 3, target_read_length, data, failAt)
       IN  /\ data' = r.data
           /\ pc' = IF r.ok THEN "trim" ELSE "bulk_failed"
           /\ read_failed' = (read_failed \/ ~r.ok)
    /\ UNCHANGED <<app_vars, first_outcome, tag, message_length, message_start_index, target_read_length,
                   chunk_vars, record_vars, ret>>

\* "Reset data to initial 16 bytes and try chunked reading": the two resize(16)
\* and the locals of the first round of the chunked retry
ResetToInitial ==
    /\ pc = "bulk_failed"
    /\ data' = Resize(Resize(data, 16), 16)
    /\ pc' = "chunk"
    /\ chunk_idx' = 1
    /\ bytes_read' = 0
    /\ current_page' = MIFARE_ULTRALIGHT_DATA_START_PAGE + 3
    /\ success' = FALSE
    /\ UNCHANGED <<app_vars, first_outcome, tag, message_length, message_start_index, target_read_length,
                   record_vars, ret, read_failed>>

\* mutant of AfterWhile: bytes read before a failure do not count as success
AfterWhileAllOrNothing(d, br, cp, succ) ==
    IF br >= Min(target_read_length, 100)
        THEN /\ success' = TRUE
             /\ pc' = "trim"
             /\ data' = d /\ bytes_read' = br /\ current_page' = cp
             /\ UNCHANGED chunk_idx
        ELSE IF chunk_idx < Len(chunk_sizes)
            THEN /\ chunk_idx' = chunk_idx + 1
                 /\ bytes_read' = 0
                 /\ current_page' = MIFARE_ULTRALIGHT_DATA_START_PAGE + 3
                 /\ data' = Resize(d, 16)
                 /\ success' = succ
                 /\ pc' = "chunk"
            ELSE /\ success' = TRUE
                 /\ pc' = "trim"
                 /\ data' = Resize(d, 16) /\ bytes_read' = 0 /\ current_page' = cp
                 /\ UNCHANGED chunk_idx

\* the code after the while loop of the chunked retry: accept what was read, or
\* go on with the next chunk size, or give up and use the initial data
AfterWhile(d, br, cp, succ) ==
    IF br >= Min(target_read_length, 100) \/ succ
        THEN /\ success' = TRUE
             /\ pc' = "trim"
             /\ data' = d /\ bytes_read' = br /\ current_page' = cp
             /\ UNCHANGED chunk_idx
        ELSE IF chunk_idx < Len(chunk_sizes)
            THEN /\ chunk_idx' = chunk_idx + 1
                 /\ bytes_read' = 0
                 /\ current_page' = MIFARE_ULTRALIGHT_DATA_START_PAGE + 3
                 /\ data' = Resize(d, 16)
                 /\ success' = succ
                 /\ pc' = "chunk"
            ELSE /\ success' = TRUE
                 /\ pc' = "trim"
                 /\ data' = d /\ bytes_read' = br /\ current_page' = cp
                 /\ UNCHANGED chunk_idx

\* one iteration of the while loop of the chunked retry
ChunkRead(failAt) ==
    /\ pc = "chunk"
    /\ LET chunk_size == chunk_sizes[chunk_idx]
           bytes_to_read == Min(chunk_size, (target_read_length - bytes_read) % 65536)
           r == read_mifare_ultralight_bytes_(tag, current_page, bytes_to_read, << >>, failAt)
           chunk_data == r.data
           new_read == (bytes_read + Len(chunk_data)) % 65536
           new_page == (current_page + (Len(chunk_data) + MIFARE_ULTRALIGHT_PAGE_SIZE - 1)
                                          \div MIFARE_ULTRALIGHT_PAGE_SIZE) % 256
       IN  IF ~r.ok
            THEN /\ read_failed' = TRUE
                 /\ AfterWhile(data, bytes_read, current_page, bytes_read > 0)
            ELSE /\ UNCHANGED read_failed
                 /\ IF new_read < target_read_length
                      THEN /\ pc' = "chunk"
                           /\ data' = data \o chunk_data
                           /\ bytes_read' = new_read
                           /\ current_page' = new_page
                           /\ UNCHANGED <<chunk_idx, success>>
                      ELSE AfterWhile(data \o chunk_data, new_read, new_page, success)
    /\ UNCHANGED <<app_vars, first_outcome, tag, message_length, message_start_index, target_read_length, record_vars, ret>>

\* mutant of NarrowedLength: message_length is kept
KeptLength(size, trim_offset, length) == length

\* "Adjust message length to what's actually available"
NarrowedLength(size, trim_offset, length) ==
    IF size < trim_offset + length THEN (size - trim_offset) % 65536 ELSE length

\* mutant of TrimOffset: page 3 is taken for trimmed already
TrimOffsetFromPage4(start_index) == start_index

\* uint32_t trim_offset = message_start_index + nfc::MIFARE_ULTRALIGHT_PAGE_SIZE
TrimOffset(start_index) == start_index + MIFARE_ULTRALIGHT_PAGE_SIZE

\* the checks before the trim, the truncation of message_length, and the trim
Trim ==
    /\ pc = "trim"
    /\ LET trim_offset == TrimOffset(message_start_index)
           truncated == Len(data) < trim_offset + message_length
           new_length == NarrowedLength(Len(data), trim_offset, message_length)
           erased == Slice(data, trim_offset, Len(data))
       IN  IF Len(data) < trim_offset
            THEN ReturnEmpty("no_trim")
            ELSE IF truncated /\ ~(Len(data) > trim_offset)
                THEN ReturnEmpty("no_data")
                ELSE /\ message_length' = new_length
                     /\ data' = IF Len(erased) > new_length THEN Resize(erased, new_length) ELSE erased
                     /\ pc' = "scan"
                     /\ UNCHANGED <<ret, message_start_index, target_read_length,
                                    chunk_vars, record_vars>>
    /\ UNCHANGED <<app_vars, first_outcome, tag, read_failed>>

(***************************************************************************)
(* The record-boundary stage of read_mifare_ultralight_tag_.               *)
(***************************************************************************)
fallback_chunk_sizes == <<64, 32, 16>>

\* mutant of IsRecordAt: the short-record bit is not looked at
IsRecordAtAnyLength(d, i) ==
    /\ (At(d, i) % 8) <= 6
    /\ i + 3 < Len(d)
    /\ At(d, i + 1) <= 8
    /\ At(d, i + 2) > 0
    /\ At(d, i + 2) < 200

\* the direct-record test at offset i: TNF <= 6, SR set, header inside the data,
\* type_length <= 8 and 0 < payload_length < 200
IsRecordAt(d, i) ==
    /\ (At(d, i) % 8) <= 6
    /\ (At(d, i) \div 16) % 2 = 1
    /\ i + 3 < Len(d)
    /\ At(d, i + 1) <= 8
    /\ At(d, i + 2) > 0
    /\ At(d, i + 2) < 200

\* uint32_t expected_size = 3 + type_length + payload_length
ExpectedSize(d, i) == 3 + At(d, i + 1) + At(d, i + 2)

\* ndef_record_starts of the loop "for (size_t i = 0; i < data.size() - 3; i++)",
\* for data of at least 3 bytes (for fewer the unsigned bound wraps around)
DirectStarts(d) == { i \in 0..(Len(d) - 4) : IsRecordAt(d, i) }

SetMin(S) == CHOOSE x \in S : \A y \in S : x <= y

\* the test of the inner-TLV loop at offset i: an NDEF TLV with its data inside d
IsInnerTlvAt(d, i) ==
    /\ At(d, i) = 3
    /\ i + 1 < Len(d)
    /\ At(d, i + 1) > 0
    /\ At(d, i + 1) < 255
    /\ i + 2 + At(d, i + 1) <= Len(d)

\* the offsets from i on at which the loop would find a TLV
InnerTlvsFrom(d, i) == { j \in i..(Len(d) - 2) : IsInnerTlvAt(d, j) }

\* the inner-TLV loop "for (size_t i = 0; i < data.size() - 1; i++)", from offset
\* i on: found_tlvs (the data of each) and expected_total_size.  The loop walks
\* byte by byte up to the next TLV and continues behind its data.
RECURSIVE InnerScan(_, _, _, _)
InnerScan(d, i, tlvs, expected) ==
    IF InnerTlvsFrom(d, i) = {}
        THEN [tlvs |-> tlvs, expected |-> expected]
        ELSE LET j == SetMin(InnerTlvsFrom(d, i))
                 inner_length == At(d, j + 1)
                 inner_data == Slice(d, j + 2, j + 2 + inner_length)
                 \* found_inner_tlv is still false during the whole loop
                 analysed == /\ Len(inner_data) >= 4
                             /\ (At(inner_data, 0) % 8) <= 6
                             /\ At(inner_data, 1) <= 8
                             /\ (At(inner_data, 0) \div 16) % 2 = 1
                             /\ Len(inner_data) >= 3
             IN  InnerScan(d, j + inner_length + 1 + 1, Append(tlvs, inner_data),
                           IF analysed
                               THEN 3 + At(inner_data, 1) + At(inner_data, 2)
                               ELSE expected)

\* the loop that appends found_tlvs[tlv_idx], tlv_idx >= 1, until the expected size
RECURSIVE AppendTlvs(_, _, _, _)
AppendTlvs(combined, tlvs, tlv_idx, expected) ==
    IF ~(tlv_idx < Len(tlvs))
        THEN combined
        ELSE LET c == combined \o At(tlvs, tlv_idx)
             IN  IF Len(c) >= expected THEN c ELSE AppendTlvs(c, tlvs, tlv_idx + 1, expected)

\* combined_inner_data of the TLV-based approach
CombineTlvs(tlvs, expected) ==
    IF expected > Len(tlvs[1]) /\ Len(tlvs) > 1
        THEN AppendTlvs(tlvs[1], tlvs, 1, expected)
        ELSE tlvs[1]

\* "i < data.size() - 3" in size_t: for fewer than 3 bytes the difference wraps
\* around to a bound near SIZE_MAX, and data[i] is read for every i below it
BoundWraps(size) == size < 3

\* the two scans of the trimmed payload
Scan ==
    /\ pc = "scan"
    /\ IF BoundWraps(Len(data))
        THEN \* the loop reads past the end of data until the device faults
             /\ pc' = "crashed"
             /\ UNCHANGED record_vars
        ELSE IF DirectStarts(data) # {}
            THEN LET start == SetMin(DirectStarts(data))
                     expected == ExpectedSize(data, start)
                     available_data == Len(data) - start
                 IN  /\ record_start' = start
                     /\ expected_total_size' = expected
                     /\ pc' = IF expected > 0 /\ available_data < expected THEN "extra" ELSE "extract"
                     /\ UNCHANGED <<combined_inner_data, found_inner_tlv>>
            ELSE LET r == InnerScan(data, 0, << >>, 0)
                 IN  /\ expected_total_size' = r.expected
                     /\ found_inner_tlv' = (r.tlvs # << >>)
                     /\ combined_inner_data' = IF r.tlvs # << >>
                                                  THEN CombineTlvs(r.tlvs, r.expected)
                                                  ELSE << >>
                     /\ pc' = "complete"
                     /\ UNCHANGED record_start
    /\ UNCHANGED <<app_vars, first_outcome, tag, data, message_length, message_start_index, target_read_length,
                   chunk_vars, ret, read_failed>>

\* uint8_t start_page = DATA_START_PAGE + size / PAGE_SIZE
StartPage(size) == (MIFARE_ULTRALIGHT_DATA_START_PAGE + (size \div MIFARE_ULTRALIGHT_PAGE_SIZE)) % 256

\* uint16_t additional_read = bytes_needed + 64
AdditionalRead ==
    ((expected_total_size - (Len(data) - record_start)) + 64) % 65536

\* mutant of ExtraRead: a failed read is not followed by the fallback reads
ExtraReadOnce(failAt) ==
    /\ pc = "extra"
    /\ LET r == read_mifare_ultralight_bytes_(tag, StartPage(Len(data)), AdditionalRead, << >>, failAt)
       IN  IF r.ok
            THEN /\ data' = data \o r.data
                 /\ pc' = "extract"
                 /\ UNCHANGED <<chunk_vars, read_failed>>
            ELSE /\ pc' = "extract"
                 /\ read_failed' = TRUE
                 /\ UNCHANGED <<data, chunk_vars>>
    /\ UNCHANGED <<app_vars, first_outcome, tag, message_length, message_start_index, target_read_length, record_vars, ret>>

\* the read that is to complete the direct record
ExtraRead(failAt) ==
    /\ pc = "extra"
    /\ LET r == read_mifare_ultralight_bytes_(tag, StartPage(Len(data)), AdditionalRead, << >>, failAt)
       IN  IF r.ok
            THEN /\ data' = data \o r.data
                 /\ pc' = "extract"
                 /\ UNCHANGED <<chunk_vars, read_failed>>
            ELSE /\ pc' = "fallback"
                 /\ chunk_idx' = 1
                 /\ current_page' = StartPage(Len(data))
                 /\ read_failed' = TRUE
                 /\ UNCHANGED <<data, bytes_read, success>>
    /\ UNCHANGED <<app_vars, first_outcome, tag, message_length, message_start_index, target_read_length, record_vars, ret>>

\* one iteration of the fallback loop over {64, 32, 16}
FallbackRead(failAt) ==
    /\ pc = "fallback"
    /\ LET chunk_size == fallback_chunk_sizes[chunk_idx]
           r == read_mifare_ultralight_bytes_(tag, current_page, chunk_size, << >>, failAt)
           grown == data \o r.data
           enough == expected_total_size > 0 /\ Len(grown) - record_start >= expected_total_size
           last == chunk_idx = Len(fallback_chunk_sizes)
       IN  IF r.ok
            THEN /\ data' = grown
                 /\ UNCHANGED read_failed
                 /\ IF enough
                      THEN pc' = "extract" /\ UNCHANGED <<chunk_idx, current_page>>
                      ELSE /\ current_page' = (current_page + (chunk_size + MIFARE_ULTRALIGHT_PAGE_SIZE - 1)
                                                                \div MIFARE_ULTRALIGHT_PAGE_SIZE) % 256
                           /\ pc' = IF last THEN "extract" ELSE "fallback"
                           /\ chunk_idx' = IF last THEN chunk_idx ELSE chunk_idx + 1
            ELSE /\ read_failed' = TRUE
                 /\ pc' = IF last THEN "extract" ELSE "fallback"
                 /\ chunk_idx' = IF last THEN chunk_idx ELSE chunk_idx + 1
                 /\ UNCHANGED <<data, current_page>>
    /\ UNCHANGED <<app_vars, first_outcome, tag, message_length, message_start_index, target_read_length,
                   bytes_read, success, record_vars, ret>>

\* "Now extract the record data"
Extract ==
    /\ pc = "extract"
    /\ LET available_data == Len(data) - record_start
           data_to_extract == Min(IF expected_total_size > 0 /\ available_data >= expected_total_size
                                      THEN expected_total_size ELSE available_data,
                                  available_data)
       IN  /\ combined_inner_data' = Slice(data, record_start, record_start + data_to_extract)
           /\ found_inner_tlv' = TRUE
    /\ pc' = "complete"
    /\ UNCHANGED <<app_vars, first_outcome, tag, data, message_length, message_start_index, target_read_length,
                   chunk_vars, record_start, expected_total_size, ret, read_failed>>

\* return make_unique<nfc::NfcTag>(uid, nfc::NFC_FORUM_TYPE_2, data)
ReturnPayload(d) ==
    /\ pc' = "returned"
    /\ ret' = "payload"
    /\ data' = d
    /\ LocalsGone

\* "Don't trim to expected size if we have partial data"; data = combined_inner_data
Finish(combined) ==
    ReturnPayload(IF expected_total_size > 0 /\ Len(combined) >= expected_total_size
                      THEN Resize(combined, expected_total_size)
                      ELSE combined)

\* the code from "if (found_inner_tlv)" up to the last read, or to the return
Complete ==
    /\ pc = "complete"
    /\ IF found_inner_tlv
        THEN IF /\ expected_total_size > 0
                /\ Len(combined_inner_data) < expected_total_size
                /\ Len(data) < 200
                THEN /\ pc' = "complete_read"
                     /\ UNCHANGED <<data, ret, message_length, message_start_index,
                                    target_read_length, chunk_vars, record_vars>>
                ELSE Finish(combined_inner_data)
        ELSE ReturnPayload(data)
    /\ UNCHANGED <<app_vars, first_outcome, tag, read_failed>>

\* the complete record looked for in expanded_data
CompleteStarts(expanded_data) ==
    { i \in 0..(Len(expanded_data) - 4) :
        /\ IsRecordAt(expanded_data, i)
        /\ ExpectedSize(expanded_data, i) = expected_total_size
        /\ i + ExpectedSize(expanded_data, i) <= Len(expanded_data) }

\* uint16_t additional_read = bytes_needed + 50
CompletionRead ==
    ((expected_total_size - Len(combined_inner_data)) + 50) % 65536

\* the read into expanded_data and the search for the complete record
CompleteRead(failAt) ==
    /\ pc = "complete_read"
    /\ LET r == read_mifare_ultralight_bytes_(tag, StartPage(Len(data)), CompletionRead, data, failAt)
           expanded_data == r.data
       IN  IF r.ok
            THEN /\ UNCHANGED read_failed
                 /\ IF CompleteStarts(expanded_data) # {}
                      THEN Finish(Slice(expanded_data, SetMin(CompleteStarts(expanded_data)),
                                        SetMin(CompleteStarts(expanded_data)) + expected_total_size))
                      ELSE Finish(combined_inner_data)
            ELSE /\ read_failed' = TRUE
                 /\ Finish(combined_inner_data)
    /\ UNCHANGED <<app_vars, first_outcome, tag>>

(***************************************************************************)
(* ReportDecoder: the pn532_i2c on_tag lambda.  A std::string is a         *)
(* sequence of characters; a character is a one-character string, except   *)
(* the named ones below.                                                   *)
(***************************************************************************)
CR == "CR"
LF == "LF"
TAB == "TAB"
\* the two bytes of the UTF-8 encoding of the superscript three of "m3"
SUP3a == "0xC2"
SUP3b == "0xB3"

\* std::string::npos
npos == -1

\* s.substr(pos, n)
Substr(s, pos, n) == Slice(s, pos, Min(Len(s), pos + n))
\* s.substr(pos)
SubstrFrom(s, pos) == Slice(s, pos, Len(s))

\* whether pat occurs in s at position i
MatchesAt(s, pat, i) ==
    /\ i + Len(pat) <= Len(s)
    /\ \A k \in 1..Len(pat) : s[i + k] = pat[k]

\* s.find(pat): the first position of pat in s, or npos
Find(s, pat) ==
    LET hits == { i \in 0..(Len(s) - Len(pat)) : MatchesAt(s, pat, i) }
    IN  IF hits = {} THEN npos ELSE SetMin(hits)

\* s.find_first_not_of(" \t")
FirstNotBlank(s) ==
    LET hits == { i \in 0..(Len(s) - 1) : At(s, i) \notin {" ", TAB} }
    IN  IF hits = {} THEN npos ELSE SetMin(hits)

\* s.find_last_not_of(" \t")
LastNotBlank(s) ==
    LET hits == { i \in 0..(Len(s) - 1) : At(s, i) \notin {" ", TAB} }
    IN  IF hits = {} THEN npos ELSE CHOOSE x \in hits : \A y \in hits : y <= x

\* s.erase(0, s.find_first_not_of(" \t")); s.erase(s.find_last_not_of(" \t") + 1)
TrimBlanks(s) ==
    LET first == FirstNotBlank(s)
        front == IF first = npos THEN << >> ELSE SubstrFrom(s, first)
        last == LastNotBlank(front)
    IN  Substr(front, 0, last + 1)

\* mutant of IsDateKey: any key of ten characters
AnyTenCharKey(key) == Len(key) = 10

\* key.length() == 10 && key[4] == '-' && key[7] == '-'
IsDateKey(key) == Len(key) = 10 /\ At(key, 4) = "-" /\ At(key, 7) = "-"

FieldKeys == {<<"V", "o", "l">>, <<"T", "e", "m", "p">>, <<"F", "V", "o", "l">>, <<"R", "V", "o", "l">>, <<"K", "V", "o", "l">>, <<"K", "D", "a", "t", "e">>, <<"T", "i", "m", "e">>}

\* tag.get_tag_type() of a tag read by read_mifare_ultralight_tag_: NFC_FORUM_TYPE_2
NFC_FORUM_TYPE_2 == <<"N", "F", "C", " ", "F", "o", "r", "u", "m", " ", "T", "y", "p", "e", " ", "2">>

\* mutant of FreshLocals: gjson is not emptied once a run has published
LeftoverLocals ==
    [gjson |-> IF water_meter_json = << >> THEN << >> ELSE <<"\"", "N", "a", "m", "e", "\"", ":", " ", "\"", "o", "l", "d", "\"", ",">>,
     ajson |-> << >>, hjson |-> <<"\"", "h", "i", "s", "t", "o", "r", "y", "\"", ":", " ", "[">>, isn |-> << >>, vol_value |-> << >>]

\* the lambda's strings as declared, before the first line is read
FreshLocals ==
    [gjson |-> << >>, ajson |-> << >>, hjson |-> <<"\"", "h", "i", "s", "t", "o", "r", "y", "\"", ":", " ", "[">>,
     isn |-> << >>, vol_value |-> << >>]

\* hjson += "{\"date\": \"" + key + "\", \"volume\": \"" + value + "\"},"
HistoryEntry(key, value) == <<"{", "\"", "d", "a", "t", "e", "\"", ":", " ", "\"">> \o key \o <<"\"", ",", " ", "\"", "v", "o", "l", "u", "m", "e", "\"", ":", " ", "\"">> \o value \o <<"\"", "}", ",">>

\* "\"" + key + "\": \"" + value + "\","
Member(key, value) == <<"\"">> \o key \o <<"\"", ":", " ", "\"">> \o value \o <<"\"", ",">>

\* a line "key: value" that is not the first line
KeyValueLine(st, line, nfckey) ==
    LET delimiter == Find(line, <<":">>)
        key == TrimBlanks(Substr(line, 0, delimiter))
        value == TrimBlanks(SubstrFrom(line, delimiter + 1))
    IN  IF delimiter = npos THEN st
        ELSE IF IsDateKey(key)
            THEN [st EXCEPT !.hjson = @ \o HistoryEntry(key, value)]
        ELSE IF key \in FieldKeys
            THEN [st EXCEPT !.ajson = @ \o Member(key, value),
                            !.vol_value = IF key = <<"V", "o", "l">> THEN value ELSE @]
        ELSE IF key = <<"S", "/", "N">>
            THEN [st EXCEPT !.gjson = @ \o Member(<<"S", "N">>, value) \o Member(<<"N", "F", "C", "_", "I", "d">>, value)
                                        \o Member(<<"N", "F", "C", "_", "T", "y", "p">>, nfckey),
                            !.isn = value]
        ELSE IF key = <<"B", "a", "t", "t", "e", "r", "y">>
            THEN [st EXCEPT !.gjson = @ \o Member(<<"B", "a", "t", "t", "e", "r", "y">>, value)]
        ELSE st

\* the first line is the device name
NameLine(st, line) == [st EXCEPT !.gjson = @ \o Member(<<"N", "a", "m", "e">>, line)]

\* while ((pos = input.find("\r\n")) != std::string::npos) { ... }
RECURSIVE ReadLines(_, _, _, _)
ReadLines(st, input, is_first_line, nfckey) ==
    LET pos == Find(input, <<CR, LF>>)
    IN  IF pos = npos THEN st
        ELSE ReadLines(IF is_first_line
                           THEN NameLine(st, Substr(input, 0, pos))
                           ELSE KeyValueLine(st, Substr(input, 0, pos), nfckey),
                       SubstrFrom(input, pos + 2), FALSE, nfckey)

\* mutant of CloseHistory: the trailing separator is kept
CloseHistoryKeepComma(hjson) == hjson

\* if (hjson.back() == ',') hjson.pop_back()
CloseHistory(hjson) ==
    IF At(hjson, Len(hjson) - 1) = "," THEN Substr(hjson, 0, Len(hjson) - 1) ELSE hjson

\* gjson = "{" + gjson + ajson + hjson + "]}"
Serialize(st) == <<"{">> \o st.gjson \o st.ajson \o CloseHistory(st.hjson) \o <<"]", "}">>

UpperCase == <<"A", "B", "C", "D", "E", "F", "G", "H", "I", "J", "K", "L", "M", "N", "O", "P", "Q", "R", "S", "T", "U", "V", "W", "X", "Y", "Z">>
LowerCase == <<"a", "b", "c", "d", "e", "f", "g", "h", "i", "j", "k", "l", "m", "n", "o", "p", "q", "r", "s", "t", "u", "v", "w", "x", "y", "z">>

\* mutant of ToLower: every character is kept
KeepCase(c) == c

\* c >= 'A' && c <= 'Z' ? c + ('a' - 'A') : c
ToLower(c) ==
    IF \E k \in 1..Len(UpperCase) : UpperCase[k] = c
        THEN LowerCase[CHOOSE k \in 1..Len(UpperCase) : UpperCase[k] = c]
        ELSE c

\* for (char c : iconv) isn += lower(c)
Lowered(iconv) == [k \in 1..Len(iconv) |-> ToLower(iconv[k])]

Digits == <<"0", "1", "2", "3", "4", "5", "6", "7", "8", "9">>
IsDigit(c) == \E k \in 1..Len(Digits) : Digits[k] = c
DigitVal(c) == (CHOOSE k \in 1..Len(Digits) : Digits[k] = c) - 1

\* the number of digits of s from position i on
RECURSIVE DigitRun(_, _)
DigitRun(s, i) == IF i < Len(s) /\ IsDigit(At(s, i)) THEN 1 + DigitRun(s, i + 1) ELSE 0

\* the value of the n digits of s from position i on
RECURSIVE DigitsValue(_, _, _, _)
DigitsValue(s, i, n, acc) ==
    IF n = 0 THEN acc ELSE DigitsValue(s, i + 1, n - 1, acc * 10 + DigitVal(At(s, i)))

\* the digit at position i of s, 0 past the end of the run
DigitOr0(s, i, run_end) == IF i < run_end THEN DigitVal(At(s, i)) ELSE 0

\* strtof(s, &endptr) on decimal text: blanks, a sign, digits, a point, digits.
\* consumed is endptr - s (0: no conversion); the value is kept in thousandths.
strtof(s) ==
    LET lead == FirstNotBlank(s)
        b == IF lead = npos THEN Len(s) ELSE lead
        signed == b < Len(s) /\ At(s, b) \in {"+", "-"}
        negative == signed /\ At(s, b) = "-"
        i0 == IF signed THEN b + 1 ELSE b
        nint == DigitRun(s, i0)
        point == i0 + nint < Len(s) /\ At(s, i0 + nint) = "."
        f0 == i0 + nint + 1
        nfrac == IF point THEN DigitRun(s, f0) ELSE 0
        converted == nint + nfrac > 0
        milli == DigitsValue(s, i0, nint, 0) * 1000
                   + DigitOr0(s, f0, f0 + nfrac) * 100
                   + DigitOr0(s, f0 + 1, f0 + nfrac) * 10
                   + DigitOr0(s, f0 + 2, f0 + nfrac)
    IN  IF ~converted
            THEN [consumed |-> 0, negative |-> FALSE, milli |-> 0]
            ELSE [consumed |-> IF point THEN f0 + nfrac ELSE i0 + nint,
                  negative |-> negative, milli |-> milli]

\* vol_numeric: vol_value without the unit
VolNumeric(vol_value) ==
    LET unit_pos == Find(vol_value, <<" ", "m", SUP3a, SUP3b>>)
    IN  IF unit_pos # npos THEN Substr(vol_value, 0, unit_pos) ELSE vol_value

\* mutant of VolumeParses: endptr is not looked at
AlwaysParses(vol_value) == TRUE

\* endptr != vol_numeric.c_str() && *endptr == '\0'
VolumeParses(vol_value) ==
    LET r == strtof(VolNumeric(vol_value))
    IN  r.consumed # 0 /\ r.consumed = Len(VolNumeric(vol_value))

\* the float handed to water_volume.publish_state
VolumeFloat(vol_value) ==
    LET r == strtof(VolNumeric(vol_value))
    IN  [has |-> TRUE, negative |-> r.negative, milli |-> r.milli]

\* a sensor that has not published yet
NoVolume == [has |-> FALSE, negative |-> FALSE, milli |-> 0]

\* mutant of CutAtCrc: the checksum and what follows it stay in the input
KeepCrc(input) == input

\* input of the lambda after "if (crc_pos != npos) input = input.substr(0, crc_pos)"
CutAtCrc(input) ==
    LET crc_pos == Find(input, <<"C", "R", "C">>)
    IN  IF crc_pos # npos THEN Substr(input, 0, crc_pos) ELSE input

\* the lambda's strings after the while loop, starting from the strings in locals0
Decode(locals0, input, nfckey) == ReadLines(locals0, CutAtCrc(input), TRUE, nfckey)

(***************************************************************************)
(* The on_tag trigger and the event loop.                                  *)
(***************************************************************************)
\* no publish_state call
NoCalls == [json |-> << >>, volume |-> NoVolume, isn |-> << >>]

\* the publish_state calls of a run of the lambda on a non-empty input, and the
\* serial number it logs
Calls(locals0, input, nfckey) ==
    LET st == Decode(locals0, input, nfckey)
    IN  [json |-> Serialize(st),
         volume |-> IF st.vol_value # << >> /\ VolumeParses(st.vol_value)
                        THEN VolumeFloat(st.vol_value)
                        ELSE NoVolume,
         \* the serial number in lower case, as logged
         isn |-> Lowered(st.isn)]

\* read_mifare_ultralight_tag_ is not running: its locals do not exist
ReaderGone ==
    /\ tag' = 0 /\ data' = << >> /\ ret' = "none" /\ read_failed' = FALSE
    /\ LocalsGone

\* mutant of has_ndef_message: every tag is taken to carry a message
always_has_message(site) == TRUE

\* tag.has_ndef_message(): the tag was made with data
has_ndef_message(site) == site = "payload"

\* mutant of SensorAfter: the sensor is set by every run
SensorAlwaysSet(volume, old) == volume

\* the state of water_volume after a run: publish_state is called only with a
\* value that parsed, otherwise the sensor keeps its state
SensorAfter(volume, old) == IF volume.has THEN volume ELSE old

\* the lambda of on_tag, run on the tag the reader returned; text is what
\* records[0]->get_payload() gives for a tag that has a message
Lambda(text) ==
    /\ pc = "returned"
    /\ pc' = "idle"
    /\ IF ~has_ndef_message(ret)
        THEN \* if (!tag.has_ndef_message()) return
             /\ payload' = << >>
             /\ published' = NoCalls
             /\ UNCHANGED <<water_meter_json, water_volume>>
        ELSE /\ payload' = text
             /\ IF text = << >>
                  THEN \* if (input != "") is false
                       /\ published' = NoCalls
                       /\ UNCHANGED <<water_meter_json, water_volume>>
                  ELSE LET calls == Calls(FreshLocals, text, NFC_FORUM_TYPE_2)
                       IN  /\ published' = calls
                           /\ water_meter_json' = calls.json
                           /\ water_volume' = SensorAfter(calls.volume, water_volume)
    /\ ReaderGone

OnTag(text) == Lambda(text) /\ UNCHANGED first_outcome

\* report texts a tag may carry in its first record
PayloadTexts ==
    { << >>,
      <<"D", "e", "v", CR, LF, "S", "/", "N", ":", " ", "1", "2", "A", "B", CR, LF, "V", "o", "l", ":", " ", "1", ".", "5", " ", "m", SUP3a, SUP3b, CR, LF, "2", "0", "2", "4", "-", "0", "1", "-", "0", "1", ":", " ", "1", ".", "0", "0", "0", CR, LF>>,
      <<"D", "e", "v", CR, LF, "V", "o", "l", ":", " ", "N", "/", "A", CR, LF, "B", "a", "t", "t", "e", "r", "y", ":", " ", "8", "7", "%", CR, LF>> }

AppInit ==
    /\ payload = << >>
    /\ published = NoCalls
    /\ water_meter_json = << >>
    /\ water_volume = NoVolume
    /\ first_outcome = [watched |-> << >>, stage |-> "never", calls |-> NoCalls]

\* the state after setup()
Init ==
    /\ pc = "idle"
    /\ data = << >>
    /\ message_length = 0
    /\ message_start_index = 0
    /\ RestInit
    /\ AppInit

\* the out-of-bounds read of the scan ends in a restart of the device
Reboot ==
    /\ pc = "crashed"
    /\ pc' = "idle"
    /\ ReaderGone
    /\ payload' = << >> /\ published' = NoCalls
    /\ water_meter_json' = << >> /\ water_volume' = NoVolume
    /\ UNCHANGED first_outcome

Next ==
    \/ \E t \in TagIds, failAt \in Outcomes(MIFARE_ULTRALIGHT_PAGE_SIZE * MIFARE_ULTRALIGHT_READ_SIZE) :
           ReadInitial(t, failAt)
    \/ \E failAt \in Outcomes(target_read_length) : BulkRead(failAt)
    \/ ResetToInitial
    \/ \E failAt \in Outcomes(chunk_sizes[1]) : ChunkRead(failAt)
    \/ Trim
    \/ Scan
    \/ \E failAt \in Outcomes(Min(AdditionalRead, target_floor)) : ExtraRead(failAt)
    \/ \E failAt \in Outcomes(fallback_chunk_sizes[1]) : FallbackRead(failAt)
    \/ Extract
    \/ Complete
    \/ \E failAt \in Outcomes(Min(CompletionRead, target_floor)) : CompleteRead(failAt)
    \/ \E text \in PayloadTexts : OnTag(text)
    \/ Reboot

Spec == Init /\ [][Next]_vars

\* the component's loop() keeps polling, and an attempt that has begun goes on
FairSpec == Spec /\ WF_vars(Next)

(***************************************************************************)
(* DetSpec: the event loop over a few tags, with a history variable that   *)
(* follows one report text through its decodes.                            *)
(***************************************************************************)
\* a tag with a record, an empty tag, and a tag with a one-byte message
DetTags == {1, 4, 9}

DetInit ==
    /\ pc = "idle"
    /\ data = << >>
    /\ message_length = 0
    /\ message_start_index = 0
    /\ RestInit
    /\ payload = << >>
    /\ published = NoCalls
    /\ water_meter_json = << >>
    /\ water_volume = NoVolume
    /\ \E p \in PayloadTexts \ {<< >>} :
           first_outcome = [watched |-> p, stage |-> "never", calls |-> NoCalls]

\* on_tag, and the watched text's progress: never decoded, decoded once, another
\* event since, decoded again
DetOnTag(text) ==
    /\ Lambda(text)
    /\ LET decoded == has_ndef_message(ret) /\ text = first_outcome.watched
       IN  first_outcome' =
             IF first_outcome.stage = "never" /\ decoded
                 THEN [first_outcome EXCEPT !.stage = "once", !.calls = published']
             ELSE IF first_outcome.stage = "once" /\ ~decoded
                 THEN [first_outcome EXCEPT !.stage = "between"]
             ELSE IF first_outcome.stage = "between" /\ decoded
                 THEN [first_outcome EXCEPT !.stage = "again"]
             ELSE first_outcome

DetNext ==
    \/ \E t \in DetTags, failAt \in Outcomes(MIFARE_ULTRALIGHT_PAGE_SIZE * MIFARE_ULTRALIGHT_READ_SIZE) :
           ReadInitial(t, failAt)
    \/ \E failAt \in Outcomes(target_read_length) : BulkRead(failAt)
    \/ ResetToInitial
    \/ \E failAt \in Outcomes(chunk_sizes[1]) : ChunkRead(failAt)
    \/ Trim
    \/ Scan
    \/ \E failAt \in Outcomes(Min(AdditionalRead, target_floor)) : ExtraRead(failAt)
    \/ \E failAt \in Outcomes(fallback_chunk_sizes[1]) : FallbackRead(failAt)
    \/ Extract
    \/ Complete
    \/ \E failAt \in Outcomes(Min(CompletionRead, target_floor)) : CompleteRead(failAt)
    \/ \E text \in PayloadTexts : DetOnTag(text)
    \/ Reboot

DetSpec == DetInit /\ [][DetNext]_vars

(***************************************************************************)
(* DecSpec: the lambda run once on each of a family of report texts.       *)
(***************************************************************************)
\* the most lines a report text has after its first line
MaxLines == 2

DecLinePool ==
    << <<"2", "0", "2", "4", "-", "0", "1", "-", "0", "1", ":", " ", "1", "0", "0", ".", "0", "0", "0">>,
       <<"2", "0", "2", "4", "-", "0", "2", "-", "0", "1", ":", "2", "0", "0", ",", "]">>,
       <<"V", "o", "l", ":", " ", "1", "2", "3", ".", "4", "5", "6", " ", "m", SUP3a, SUP3b>>,
       <<"V", "o", "l", ":", " ", "N", "/", "A">>,
       <<" ", "T", "e", "m", "p", TAB, ":", " ", "2", "1", ":", "3", "0", " ">>,
       <<"S", "/", "N", ":", " ", "1", "2", "3", "4", "5", "A", "B", "C">>,
       <<"B", "a", "t", "t", "e", "r", "y", ":", " ", "8", "7", "%">>,
       <<"F", "o", "o", ":", " ", "b", "a", "r">>,
       <<"1", "2", "3", "4", "5", "-", "6", "7", "8", "9", ":", " ", "x">>,
       <<"n", "o", " ", "d", "e", "l", "i", "m", "i", "t", "e", "r">> >>

\* what follows the last complete line: nothing, a line without its CRLF, a checksum
DecTails == { << >>, <<"V", "o", "l", ":", " ", "9">>, <<"C", "R", "C", " ", "1", "F", "2", "E", CR, LF>> }

\* the lines ls, each with its CRLF
RECURSIVE DecJoin(_)
DecJoin(ls) ==
    IF ls = << >> THEN << >> ELSE DecLinePool[Head(ls)] \o <<CR, LF>> \o DecJoin(Tail(ls))

DecLineSeqs == UNION { [1..n -> 1..Len(DecLinePool)] : n \in 0..MaxLines }

\* a report whose first line has the form of a key/value line and whose
\* checksum is followed by more lines, and a serial number made of the letters
\* at the ends of the alphabet and their neighbours in ASCII
DecExtras ==
    { <<"S", "/", "N", ":", " ", "1", "A", CR, LF, "V", "o", "l", ":", " ", "1", CR, LF, "C", "R", "C", " ", "1", "F", CR, LF, "B", "a", "t", "t", "e", "r", "y", ":", " ", "9", CR, LF>>,
      <<"D", "e", "v", CR, LF, "S", "/", "N", ":", " ", "@", "A", "Z", "[", "a", "z", "{", CR, LF>> }

DecPayloads ==
    { <<"D", "e", "v", CR, LF>> \o DecJoin(ls) \o tail : ls \in DecLineSeqs, tail \in DecTails }
        \cup { <<"D", "e", "v">>, <<CR, LF>> } \cup DecExtras

\* the lambda is entered with the tag of a successful read
DecInit ==
    /\ pc = "returned"
    /\ tag = 1
    /\ data = TextRecord
    /\ ret = "payload"
    /\ read_failed = FALSE
    /\ message_length = 0 /\ message_start_index = 0 /\ target_read_length = 0
    /\ chunk_idx = 0 /\ bytes_read = 0 /\ current_page = 0 /\ success = FALSE
    /\ record_start = 0 /\ expected_total_size = 0
    /\ combined_inner_data = << >> /\ found_inner_tlv = FALSE
    /\ AppInit

DecNext == \E text \in DecPayloads : OnTag(text)

DecSpec == DecInit /\ [][DecNext]_vars

(***************************************************************************)
(* PageSpec: one call of read_mifare_ultralight_bytes_, exchange by        *)
(* exchange.  current_page holds start_page, target_read_length num_bytes, *)
(* chunk_idx the loop counter i, and data the vector that is filled.       *)
(***************************************************************************)
PageTags == {1, 18}

\* page 3, page 4, page 7 of the bulk read, and a later page
PageStarts == {3, 4, 7, 9}

\* sizes of the reads of read_mifare_ultralight_tag_: whole exchanges, chunks
\* and remainders of the retry, and sizes that are no multiple of a page
PageCounts == {4, 8, 12, 16, 32, 64, 65, 94, 300}

\* the vector is empty or holds pages 3 to 6 already
PageInit ==
    /\ pc = "read"
    /\ tag \in PageTags
    /\ current_page \in PageStarts
    /\ target_read_length \in PageCounts
    /\ data \in {<< >>, SubSeq(TagImage(tag), 1, 16)}
    /\ chunk_idx = 0
    /\ ret = "none"
    /\ read_failed = FALSE
    /\ message_length = 0 /\ message_start_index = 0
    /\ bytes_read = 0 /\ success = FALSE
    /\ record_start = 0 /\ expected_total_size = 0
    /\ combined_inner_data = << >> /\ found_inner_tlv = FALSE
    /\ AppInit

\* one iteration of "for (uint8_t i = 0; i * read_increment < num_bytes; i++)"
PageExchange(fails) ==
    /\ pc = "read"
    /\ chunk_idx * read_increment < target_read_length
    /\ IF fails
        THEN \* write_command_ or read_response fails, or the status is not 0x00
             /\ pc' = "read_false"
             /\ read_failed' = TRUE
             /\ UNCHANGED <<data, chunk_idx>>
        ELSE /\ data' = AppendExchange(data,
                                       Response(tag, (chunk_idx * MIFARE_ULTRALIGHT_READ_SIZE + current_page) % 256),
                                       chunk_idx, target_read_length)
             /\ chunk_idx' = (chunk_idx + 1) % 256
             /\ UNCHANGED <<pc, read_failed>>
    /\ UNCHANGED <<app_vars, first_outcome, tag, message_length, message_start_index, target_read_length,
                   bytes_read, current_page, success, record_vars, ret>>

\* the loop condition is false: return true
PageReturn ==
    /\ pc = "read"
    /\ ~(chunk_idx * read_increment < target_read_length)
    /\ pc' = "read_true"
    /\ UNCHANGED <<reader_vars, app_vars, first_outcome>>

PageNext == (\E fails \in BOOLEAN : PageExchange(fails)) \/ PageReturn

PageSpec == PageInit /\ [][PageNext]_vars

(***************************************************************************)
(* LocSpec: the locator applied to every 16-byte window (pages 3..6) of a  *)
(* family of page contents.                                                *)
(***************************************************************************)
LocByte0 == {0, 1, 3, 255}
LocByte1 == {0, 1, 30, 100, 254, 255}
LocByte2 == {0, 1, 2, 3, 4, 255}
LocByte3 == {0, 1, 16, 30, 32, 100, 101, 156, 157, 254, 255}
LocByte5 == {0, 3}
LocByte6 == {0, 5, 255}

LocWindows ==
    { Page3 \o <<b0, b1, b2, b3, 0, b5, b6, 0, 0, 0, 0, 0>> :
        b0 \in LocByte0, b1 \in LocByte1, b2 \in LocByte2,
        b3 \in LocByte3, b5 \in LocByte5, b6 \in LocByte6 }

LocInit ==
    /\ pc = "locate"
    /\ data \in LocWindows
    /\ message_length = 0
    /\ message_start_index = 0
    /\ RestInit
    /\ AppInit

\* the call find_mifare_ultralight_ndef_(data, message_length, message_start_index)
Locate ==
    /\ pc = "locate"
    /\ LET r == find_mifare_ultralight_ndef_(data)
       IN  /\ pc' = IF r.ok THEN "located" ELSE "no_ndef"
           /\ message_length' = IF r.ok THEN r.message_length ELSE message_length
           /\ message_start_index' = IF r.ok THEN r.message_start_index ELSE message_start_index
    /\ UNCHANGED <<app_vars, first_outcome, tag, data, target_read_length, chunk_vars, record_vars, ret, read_failed>>

LocNext == Locate

LocSpec == LocInit /\ [][LocNext]_vars

(***************************************************************************)
(* WriteSpec: write_mifare_ultralight_tag_ writes a message of every       *)
(* length the locator accepts, and the reader locates it again.            *)
(* message_length holds the writer's uint32_t message_length until the     *)
(* locator writes the reader's.                                            *)
(***************************************************************************)
\* the longest message find_mifare_ultralight_ndef_ takes for plausible
MaxMessageLength == 924

\* 0x03 and the length, in one byte or as FF and two bytes, high byte first
TlvHeader(length) ==
    IF length < 255
        THEN <<3, length % 256>>
        ELSE <<3, 255, (length \div 256) % 256, length % 256>>

\* the first bytes of message->encode(): a record header and its text
EncodedStart(length) == [k \in 1..Min(length, 12) |-> IF k = 1 THEN 209 ELSE 65]

\* the first three pages written: header, message, terminator, then zeros
WrittenPages(length) ==
    Resize(TlvHeader(length) \o EncodedStart(length)
               \o (IF length < 12 THEN <<254>> ELSE << >>),
           3 * MIFARE_ULTRALIGHT_PAGE_SIZE)

WriteInit ==
    /\ pc = "write"
    /\ message_length \in 1..MaxMessageLength
    /\ message_start_index = 0
    /\ data = << >>
    /\ RestInit
    /\ AppInit

\* the tag is written, and pages 3 to 6 are read back
WriteTag ==
    /\ pc = "write"
    /\ pc' = "locate"
    /\ data' = Page3 \o WrittenPages(message_length)
    /\ UNCHANGED <<app_vars, first_outcome, tag, message_length, message_start_index, target_read_length,
                   chunk_vars, record_vars, ret, read_failed>>

WriteNext == WriteTag \/ Locate

WriteSpec == WriteInit /\ [][WriteNext]_vars

\* window byte i, counted from the page-4 origin
W(i) == At(data, p4_offset + i)

(***************************************************************************)
(* Claims about the locator (checked under LocSpec).                       *)
(***************************************************************************)
LocReturned == pc \in {"located", "no_ndef"}

\* C1: a window whose byte 0 is 0x03 and whose byte 1 is b < 0xFF is located
\* with message_length = b and message_start_index = 2, whatever the other
\* bytes of the window are.
C1_FixedLength ==
    (LocReturned /\ W(0) = 3 /\ W(1) < 255)
        => (pc = "located" /\ message_length = W(1) /\ message_start_index = 2)

C1_Witness ==
    /\ pc = "located" /\ W(0) = 3 /\ W(1) = 30 /\ W(2) = 3 /\ W(5) = 3
    /\ message_length = 30 /\ message_start_index = 2

\* C2: for a window 03 FF 03 ll the second-TLV rule decides: (ll, 4) when
\* 0 < ll <= 100, (255, 2) otherwise; the 16-bit candidate 0x03ll is never
\* the returned length.
C2_SecondTlvPrecedence ==
    (LocReturned /\ W(0) = 3 /\ W(1) = 255 /\ W(2) = 3)
        => /\ pc = "located"
           /\ IF W(3) > 0 /\ W(3) <= 100
                THEN message_length = W(3) /\ message_start_index = 4
                ELSE message_length = 255 /\ message_start_index = 2
           /\ message_length # 3 * 256 + W(3)

C2_Witness ==
    /\ pc = "located" /\ W(0) = 3 /\ W(1) = 255 /\ W(2) = 3 /\ W(3) = 32
    /\ message_length = 32 /\ message_start_index = 4

\* C3 as stated: the window 03 FF 02 10 falls back to the literal length 255
\* with start index 2.
C3_Original ==
    (LocReturned /\ W(0) = 3 /\ W(1) = 255 /\ W(2) = 2 /\ W(3) = 16)
        => (pc = "located" /\ message_length = 255 /\ message_start_index = 2)

\* C3 amended: the candidate 0x0210 = 528 lies inside (254, 924], so the window
\* 03 FF 02 10 is located as an extended-length TLV: message_length = 528 and
\* message_start_index = 4.
C3_Extended528 ==
    (LocReturned /\ W(0) = 3 /\ W(1) = 255 /\ W(2) = 2 /\ W(3) = 16)
        => (pc = "located" /\ message_length = 528 /\ message_start_index = 4)

C3_Witness ==
    /\ pc = "located" /\ W(0) = 3 /\ W(1) = 255 /\ W(2) = 2 /\ W(3) = 16
    /\ message_length = 2 * 256 + 16

\* C12: for a window 03 FF hh ll with hh # 0x03 and L = 256 * hh + ll, the
\* locator returns (L, 4) when 254 < L <= 924 and (255, 2) for every other L.
C12_ExtendedOrLiteral ==
    (LocReturned /\ W(0) = 3 /\ W(1) = 255 /\ W(2) # 3)
        => /\ pc = "located"
           /\ IF 254 < 256 * W(2) + W(3) /\ 256 * W(2) + W(3) <= 924
                THEN message_length = 256 * W(2) + W(3) /\ message_start_index = 4
                ELSE message_length = 255 /\ message_start_index = 2

\* the window 03 FF 00 1E has been located: L = 30 is no extended length
C12_Witness ==
    /\ pc = "located" /\ W(0) = 3 /\ W(1) = 255 /\ W(2) = 0 /\ W(3) = 30
    /\ message_length = 255 /\ message_start_index = 2

\* the window with byte 5 set to zero
WithoutByte5(window) == [window EXCEPT ![p4_offset + 5 + 1] = 0]

\* C13: when byte 0 is not 0x03, a window whose byte 5 is 0x03 is located with
\* message_length = byte 6 and message_start_index = 7, and a window whose
\* byte 5 is not 0x03 is not located.  When byte 0 is 0x03 the byte-0 rules
\* decide alone: the result is the one of the same window without the 0x03 at
\* byte 5.
C13_SecondaryOffset ==
    /\ (LocReturned /\ W(0) # 3 /\ W(5) = 3 /\ Len(data) >= p4_offset + 7)
          => (pc = "located" /\ message_length = W(6) /\ message_start_index = 7)
    /\ (LocReturned /\ W(0) # 3 /\ W(5) # 3) => pc = "no_ndef"
    /\ (LocReturned /\ W(0) = 3 /\ W(5) = 3)
          => /\ pc = "located"
             /\ message_start_index # 7
             /\ message_length = find_mifare_ultralight_ndef_(WithoutByte5(data)).message_length
             /\ message_start_index = find_mifare_ultralight_ndef_(WithoutByte5(data)).message_start_index

\* a window 01 .. .. .. .. 03 05 has been located through byte 5
C13_Witness ==
    /\ pc = "located" /\ W(0) = 1 /\ W(5) = 3 /\ W(6) = 5
    /\ message_length = 5 /\ message_start_index = 7


(***************************************************************************)
(* MessageAssembler claims, checked under Spec.                            *)
(***************************************************************************)
\* message_length as the locator gave it for tag t
LocatedLength(t) ==
    find_mifare_ultralight_ndef_(
        read_mifare_ultralight_bytes_(t, 3, MIFARE_ULTRALIGHT_PAGE_SIZE * MIFARE_ULTRALIGHT_READ_SIZE,
                                      << >>, 1).data).message_length

\* the reader is past the trim and message_length was narrowed
Narrowed ==
    /\ pc \in {"scan", "extra", "fallback", "extract", "complete", "complete_read"}
    /\ message_length < LocatedLength(tag)

\* the reader is at the trim with fewer bytes than the message needs
ShortOfMessage ==
    /\ pc = "trim"
    /\ Len(data) < message_start_index + MIFARE_ULTRALIGHT_PAGE_SIZE + message_length

\* C4 as stated: after a truncation the reader returns a tag whose payload has
\* exactly the narrowed message_length bytes.
C4_Original ==
    [][(Narrowed /\ pc' = "returned") => (ret' = "payload" /\ Len(data') = message_length)]_vars

\* C4: when the buffer is short of payload_start_offset + message_length the
\* reader does not abort; it narrows message_length to the bytes available past
\* the payload start and trims the buffer to exactly that many bytes before the
\* record-boundary stage, and the tag is then returned with a non-empty payload
\* (whose length the record-boundary stage decides).
C4_Truncation ==
    [][/\ ShortOfMessage =>
            /\ pc' = "scan"
            /\ message_length' = Len(data) - (message_start_index + MIFARE_ULTRALIGHT_PAGE_SIZE)
            /\ message_length' > 0
            /\ Len(data') = message_length'
       /\ (Narrowed /\ pc' = "returned") => (ret' = "payload" /\ data' # << >>)]_vars

\* a tag whose extended length exceeds what the reader fetches, read without a
\* failure, after the trim
C4_Witness ==
    /\ pc = "scan"
    /\ ~read_failed
    /\ message_length < LocatedLength(tag)
    /\ Len(data) = message_length

\* C9 as stated: whenever a page read failed during the reconstruction, the tag
\* is returned without payload.
C9_Original == (pc = "returned" /\ read_failed) => ret # "payload"

\* C9: only a failure of the initial read of pages 3..6 ends the reconstruction
\* (tag without payload); after a failure of the bulk read or of any later read
\* the reader goes on with the bytes it has and returns a tag with a payload.
C9_OnlyInitialFailureAborts ==
    /\ (pc = "returned" /\ ret = "read_failed") => (read_failed /\ data = << >>)
    /\ (pc = "returned" /\ read_failed /\ ret # "read_failed") => (ret = "payload" /\ data # << >>)

\* a tag returned with a payload although a read failed
C9_Witness == pc = "returned" /\ read_failed /\ ret = "payload"

\* the return statements that leave the tag without a message
NoReadingReturns == {"read_failed", "not_formatted", "no_ndef", "empty", "no_trim", "no_data"}

\* C10: an event that yields no reading (the tag is returned without payload, or
\* the text of its first record is empty) publishes nothing: the JSON text and
\* the numeric volume keep the values they had.
C10_NoReadingPublishesNothing ==
    [][(/\ pc = "returned"
        /\ pc' = "idle"
        /\ (ret \in NoReadingReturns \/ (ret = "payload" /\ payload' = << >>)))
       => (/\ published' = NoCalls
           /\ water_meter_json' = water_meter_json
           /\ water_volume' = water_volume)]_vars

\* an event without a reading has been handled after a reading was published
C10_Witness ==
    /\ pc = "idle"
    /\ payload = << >>
    /\ published = NoCalls
    /\ water_meter_json # << >>
    /\ water_volume.has

(***************************************************************************)
(* ReportDecoder claims.  The report is read a second time here, from the  *)
(* claims' words: lines by the positions of CRLF, members joined by commas.*)
(***************************************************************************)
SetMax(S) == CHOOSE x \in S : \A y \in S : y <= x

\* the positions (from 0) of the CRLFs of text
ReportEnds(text) == { i \in 0..(Len(text) - 2) : At(text, i) = CR /\ At(text, i + 1) = LF }

ReportLineCount(text) == Cardinality(ReportEnds(text))

\* the position of the k-th CRLF
ReportEnd(text, k) ==
    CHOOSE e \in ReportEnds(text) : Cardinality({ x \in ReportEnds(text) : x < e }) = k - 1

\* the k-th line, without its CRLF
ReportLine(text, k) ==
    Slice(text, IF k = 1 THEN 0 ELSE ReportEnd(text, k - 1) + 2, ReportEnd(text, k))

\* text is made of CRLF-terminated lines and has no checksum
IsReport(text) ==
    /\ Len(text) >= 2
    /\ (Len(text) - 2) \in ReportEnds(text)
    /\ \A i \in 0..(Len(text) - 3) : ~(At(text, i) = "C" /\ At(text, i + 1) = "R" /\ At(text, i + 2) = "C")

Colons(line) == { i \in 1..Len(line) : line[i] = ":" }

\* s without the spaces and tabs at its ends
Stripped(s) ==
    LET solid == { i \in 1..Len(s) : s[i] \notin {" ", TAB} }
    IN  IF solid = {} THEN << >> ELSE SubSeq(s, SetMin(solid), SetMax(solid))

LineKey(line) == Stripped(SubSeq(line, 1, SetMin(Colons(line)) - 1))
LineValue(line) == Stripped(SubSeq(line, SetMin(Colons(line)) + 1, Len(line)))

DateShaped(key) == Len(key) = 10 /\ key[5] = "-" /\ key[8] = "-"

ReportFieldKeys == {<<"V", "o", "l">>, <<"T", "e", "m", "p">>, <<"F", "V", "o", "l">>, <<"R", "V", "o", "l">>, <<"K", "V", "o", "l">>, <<"K", "D", "a", "t", "e">>, <<"T", "i", "m", "e">>}

\* the dispatch of a line after the first, in the order of the claim
LineKind(line) ==
    IF Colons(line) = {} THEN "ignored"
    ELSE IF DateShaped(LineKey(line)) THEN "history"
    ELSE IF LineKey(line) \in ReportFieldKeys THEN "field"
    ELSE IF LineKey(line) = <<"S", "/", "N">> THEN "sn"
    ELSE IF LineKey(line) = <<"B", "a", "t", "t", "e", "r", "y">> THEN "battery"
    ELSE "ignored"

JsonMember(key, value) == <<"\"">> \o key \o <<"\"", ":", " ", "\"">> \o value \o <<"\"">>

JsonRow(key, value) == <<"{">> \o JsonMember(<<"d", "a", "t", "e">>, key) \o <<",", " ">> \o JsonMember(<<"v", "o", "l", "u", "m", "e">>, value) \o <<"}">>

\* what a line contributes to a group of the output, as a sequence of texts
LinePieces(line, group) ==
    IF LineKind(line) = "history" /\ group = "history"
        THEN << JsonRow(LineKey(line), LineValue(line)) >>
    ELSE IF LineKind(line) = "field" /\ group = "field"
        THEN << JsonMember(LineKey(line), LineValue(line)) >>
    ELSE IF LineKind(line) = "sn" /\ group = "header"
        THEN << JsonMember(<<"S", "N">>, LineValue(line)), JsonMember(<<"N", "F", "C", "_", "I", "d">>, LineValue(line)),
                JsonMember(<<"N", "F", "C", "_", "T", "y", "p">>, <<"N", "F", "C", " ", "F", "o", "r", "u", "m", " ", "T", "y", "p", "e", " ", "2">>) >>
    ELSE IF LineKind(line) = "battery" /\ group = "header"
        THEN << JsonMember(<<"B", "a", "t", "t", "e", "r", "y">>, LineValue(line)) >>
    ELSE << >>

\* the pieces of lines k.. of text for a group, in the order of the lines
RECURSIVE GroupPieces(_, _, _)
GroupPieces(text, k, group) ==
    IF k > ReportLineCount(text) THEN << >>
    ELSE LinePieces(ReportLine(text, k), group) \o GroupPieces(text, k + 1, group)

RECURSIVE JoinComma(_)
JoinComma(pieces) ==
    IF pieces = << >> THEN << >>
    ELSE IF Len(pieces) = 1 THEN pieces[1]
    ELSE pieces[1] \o <<",">> \o JoinComma(Tail(pieces))

\* the JSON text the claims describe for a report
ExpectedJson(text) ==
    <<"{">> \o JoinComma(<< JsonMember(<<"N", "a", "m", "e">>, ReportLine(text, 1)) >>
                       \o GroupPieces(text, 2, "header")
                       \o GroupPieces(text, 2, "field")
                       \o << <<"\"", "h", "i", "s", "t", "o", "r", "y", "\"", ":", " ", "[">> \o JoinComma(GroupPieces(text, 2, "history")) \o <<"]">> >>)
        \o <<"}">>

\* the lines after the first that are a Vol field
VolLines(text) ==
    { k \in 2..ReportLineCount(text) :
        LineKind(ReportLine(text, k)) = "field" /\ LineKey(ReportLine(text, k)) = <<"V", "o", "l">> }

\* the volume candidate: the value of the last Vol line
VolCandidate(text) ==
    IF VolLines(text) = {} THEN << >> ELSE LineValue(ReportLine(text, SetMax(VolLines(text))))

\* the candidate without the unit
Unitless(value) ==
    LET units == { i \in 1..(Len(value) - 3) : SubSeq(value, i, i + 3) = <<" ", "m", SUP3a, SUP3b>> }
    IN  IF units = {} THEN value ELSE SubSeq(value, 1, SetMin(units) - 1)

\* digits with at most one point and an optional sign in front
IsDecimal(s) ==
    LET body == IF s # << >> /\ s[1] \in {"+", "-"} THEN Tail(s) ELSE s
    IN  /\ \E i \in 1..Len(body) : IsDigit(body[i])
        /\ \A i \in 1..Len(body) : IsDigit(body[i]) \/ body[i] = "."
        /\ Cardinality({ i \in 1..Len(body) : body[i] = "." }) <= 1

\* the lambda has run on a non-empty text
Decoded == pc = "idle" /\ payload # << >>

\* C5: the lines after the first are split at the first ':', key and value
\* trimmed, and dispatched by key: date-shaped keys to history rows, the seven
\* field keys to fields (Vol also the volume candidate), S/N and Battery to the
\* header, everything else ignored; rows and members keep the order of the lines.
C5_LineDispatch ==
    (Decoded /\ IsReport(payload)) =>
        /\ published.json = ExpectedJson(payload)
        /\ published.volume.has <=>
             (VolCandidate(payload) # << >> /\ IsDecimal(Unitless(VolCandidate(payload))))

\* a report with two different history rows has been decoded
C5_Witness ==
    /\ Decoded
    /\ IsReport(payload)
    /\ Len(GroupPieces(payload, 2, "history")) = 2
    /\ GroupPieces(payload, 2, "history")[1] # GroupPieces(payload, 2, "history")[2]
    /\ published.json = ExpectedJson(payload)

\* C7: a Vol value that is no number once the unit is removed leaves the JSON
\* as it would be otherwise, with the Vol text in it, and only the numeric
\* volume is not published.
C7_UnparsableVolume ==
    (/\ Decoded
     /\ IsReport(payload)
     /\ VolCandidate(payload) # << >>
     /\ ~IsDecimal(Unitless(VolCandidate(payload))))
    => /\ water_meter_json = ExpectedJson(payload)
       /\ published.json = water_meter_json
       /\ \E i \in 0..Len(water_meter_json) :
            MatchesAt(water_meter_json, JsonMember(<<"V", "o", "l">>, VolCandidate(payload)), i)
       /\ published.volume = NoVolume
       /\ water_volume = NoVolume

\* a report with "Vol: N/A" and a history row has been decoded and published
C7_Witness ==
    /\ Decoded
    /\ IsReport(payload)
    /\ VolCandidate(payload) = <<"N", "/", "A">>
    /\ GroupPieces(payload, 2, "history") # << >>
    /\ water_meter_json # << >>
    /\ ~water_volume.has

\* the number of quotation marks of json before position i (from 1)
QuotesBefore(json, i) == Cardinality({ j \in 1..(i - 1) : json[j] = "\"" })

\* position i of json is outside every string
Structural(json, i) == json[i] # "\"" /\ QuotesBefore(json, i) % 2 = 0

\* position i ends a value: the closing mark of a string, or a closing bracket
ValueEnd(json, i) ==
    \/ json[i] = "\"" /\ QuotesBefore(json, i) % 2 = 1
    \/ json[i] \in {"]", "}"} /\ Structural(json, i)

\* position i starts a value: the opening mark of a string, or an opening bracket
ValueStart(json, i) ==
    \/ json[i] = "\"" /\ QuotesBefore(json, i) % 2 = 0
    \/ json[i] \in {"[", "{"} /\ Structural(json, i)

\* the first position after i that holds no space, Len(json) + 1 if there is none
After(json, i) ==
    CHOOSE j \in (i + 1)..(Len(json) + 1) :
        /\ j <= Len(json) => json[j] # " "
        /\ \A k \in (i + 1)..(j - 1) : json[k] = " "

\* the last position before i that holds no space, 0 if there is none
Before(json, i) ==
    CHOOSE j \in 0..(i - 1) :
        /\ j >= 1 => json[j] # " "
        /\ \A k \in (j + 1)..(i - 1) : json[k] = " "

\* every separator stands between the end of a value and the start of the
\* next, and no two values follow each other without one
SeparatorsOk(json) ==
    /\ \A i \in 1..Len(json) :
         (json[i] = "," /\ Structural(json, i)) =>
            /\ Before(json, i) >= 1 /\ ValueEnd(json, Before(json, i))
            /\ After(json, i) <= Len(json) /\ ValueStart(json, After(json, i))
    /\ \A i \in 1..Len(json) :
         ValueEnd(json, i) => ~(After(json, i) <= Len(json) /\ ValueStart(json, After(json, i)))

\* C8: whatever lines the payload has, in the published JSON no ',' stands
\* before a closing ']' or '}', and members and rows are separated by exactly
\* one ','.
C8_NoTrailingSeparator ==
    Decoded =>
        /\ SeparatorsOk(published.json)
        /\ published.json[1] = "{"
        /\ published.json[Len(published.json)] = "}"

\* a JSON text with history rows, one whose value has ",]" in it
C8_Witness ==
    /\ Decoded
    /\ \E i \in 0..Len(published.json) : MatchesAt(published.json, <<"2", "0", "0", ",", "]", "\"", "}", ",", "{", "\"", "d", "a", "t", "e", "\"">>, i)
    /\ SeparatorsOk(published.json)

TagBytes(t, off, n) == [k \in 1..n |-> Mem(t, off + k - 1)]

\* C11 as stated: a call of read_mifare_ultralight_bytes_ that fails, at
\* whichever exchange, leaves the buffer as it was before the call; the buffer
\* grows only when the call returns success.  The call looked at is the bulk
\* read, whose buffer is data itself.
C11_Original ==
    [][(pc = "bulk" /\ pc' = "bulk_failed") => data' = data]_vars

\* the positions at which read_mifare_ultralight_tag_ holds a buffer
ReaderPositions ==
    {"bulk", "bulk_failed", "chunk", "trim", "scan", "extra", "fallback", "extract",
     "complete", "complete_read"}

\* d is a run of consecutive bytes of the memory of tag t
IsTagRun(t, d) ==
    \E off \in 0..Len(TagImage(t)) : \A k \in 1..Len(d) : d[k] = Mem(t, off + k - 1)

\* the page that holds the tag byte following the last byte of the trimmed buffer
FollowingPage == 3 + (MIFARE_ULTRALIGHT_PAGE_SIZE + message_start_index + Len(data)) \div MIFARE_ULTRALIGHT_PAGE_SIZE

\* C14 as stated: the read that is to complete the direct record starts at the
\* page following the last tag byte held, and at every point of the reader the
\* buffer is a run of consecutive tag bytes, none duplicated and none skipped.
C14_Original ==
    /\ pc = "extra" => StartPage(Len(data)) = FollowingPage
    /\ pc \in ReaderPositions => IsTagRun(tag, data)

\* the TLV's indicated remaining length: message_length + offset - 12, 0 when not positive
Remaining(length, offset) == IF length + offset > 12 THEN length + offset - 12 ELSE 0

\* C15 as stated: the bulk read asks for max(R, floor) bytes, R the indicated
\* remaining length; with a transport that never fails the buffer then holds at
\* least payload_start_offset + message_length bytes and the trimmed payload has
\* exactly the declared message_length bytes.
C15_Original ==
    /\ pc = "bulk" =>
         target_read_length = Max(Remaining(message_length, message_start_index), target_floor)
    /\ (pc = "trim" /\ ~read_failed) => Len(data) >= message_start_index + message_length
    /\ (pc = "scan" /\ ~read_failed) => Len(data) = LocatedLength(tag)

\* the positions before the trim step
BeforeTrim == {"bulk", "bulk_failed", "chunk", "trim"}

\* C17 as stated: from the initial read up to the trim step no step makes the
\* buffer shorter, whatever reads succeed or fail.
C17_Original ==
    [][(pc \in BeforeTrim /\ pc' \in BeforeTrim) => Len(data') >= Len(data)]_vars

\* the chunk sizes of the retry, in the order of the claim
RetrySizes == <<32, 16, 8>>

\* C16: after a failed bulk read the reader restarts from the 16 bytes of pages
\* 3..6 and reads on from page 7 in chunks of 32 bytes, appending every chunk
\* that succeeds; it goes on to 16 and then to 8 bytes only when the size before
\* retrieved nothing; once a size has retrieved a chunk, the bytes accumulated
\* before its first failing chunk are what the reader goes on with; when no
\* size retrieved anything it goes on with the 16 initial bytes.
C16_ChunkedRetry ==
    [][/\ pc = "bulk_failed" =>
            /\ pc' = "chunk"
            /\ data' = TagBytes(tag, 0, 16)
            /\ chunk_idx' = 1 /\ bytes_read' = 0
            /\ current_page' = 7
       /\ pc = "chunk" =>
            /\ pc' \in {"chunk", "trim"}
            /\ chunk_idx \in 1..3
            /\ current_page = 7 + bytes_read \div MIFARE_ULTRALIGHT_PAGE_SIZE
            /\ data = TagBytes(tag, 0, 16 + bytes_read)
            /\ \/ \* the chunk was read and appended
                  /\ bytes_read' = bytes_read + Min(RetrySizes[chunk_idx], 300 - bytes_read)
                  /\ data' = TagBytes(tag, 0, 16 + bytes_read')
                  /\ chunk_idx' = chunk_idx
                  /\ pc' = "trim" <=> bytes_read' = 300
               \/ \* the chunk failed after at least one chunk of this size
                  /\ bytes_read > 0
                  /\ pc' = "trim"
                  /\ data' = data /\ bytes_read' = bytes_read /\ chunk_idx' = chunk_idx
               \/ \* the first chunk of this size failed: the next size, from page 7 again
                  /\ bytes_read = 0 /\ chunk_idx < 3
                  /\ pc' = "chunk"
                  /\ chunk_idx' = chunk_idx + 1
                  /\ data' = TagBytes(tag, 0, 16) /\ bytes_read' = 0 /\ current_page' = 7
               \/ \* the first chunk of the last size failed: the initial bytes only
                  /\ bytes_read = 0 /\ chunk_idx = 3
                  /\ pc' = "trim"
                  /\ data' = TagBytes(tag, 0, 16)]_vars

\* the 32-byte chunks retrieved nothing, the 16-byte chunks retrieved two chunks
\* before one failed, and the reader goes on with 16 + 32 bytes
C16_Witness ==
    /\ pc = "trim" /\ read_failed
    /\ chunk_idx = 2 /\ bytes_read = 32
    /\ data = TagBytes(tag, 0, 48)

\* C18: the trim leaves exactly the tag bytes at the page-4 offsets
\* [payload_start_offset, payload_start_offset + m), m being the declared
\* message_length or, when the buffer is short of it, the number of bytes the
\* buffer holds past the payload start: page 3 and the TLV header are gone and
\* nothing behind the message is kept.
C18_TrimExact ==
    [][(pc = "trim" /\ pc' = "scan") =>
          LET offset == message_start_index
              available == Len(data) - (MIFARE_ULTRALIGHT_PAGE_SIZE + offset)
              declared == LocatedLength(tag)
              m == IF available < declared THEN available ELSE declared
          IN  /\ Len(data') = m
              /\ data' = TagBytes(tag, MIFARE_ULTRALIGHT_PAGE_SIZE + offset, m)
              /\ data'[1] = Mem(tag, MIFARE_ULTRALIGHT_PAGE_SIZE + offset)
              /\ message_length' = m]_vars

\* the tag with a lock-control TLV in front (start offset 7) has been trimmed to
\* its 12-byte message although the buffer held 316 bytes
C18_Witness ==
    /\ pc = "scan" /\ tag = 8 /\ ~read_failed
    /\ message_start_index = 7 /\ message_length = 12
    /\ data = TextRecord

(***************************************************************************)
(* Record-boundary claims, checked under Spec.  The record header is read  *)
(* here from the claims' words.                                            *)
(***************************************************************************)
\* the TNF field and the short-record bit of a flags byte
TNF(flags) == flags % 8
ShortRecord(flags) == (flags \div 16) % 2 = 1

\* offset i of d holds a flags byte with TNF <= 6 and SR set, followed by a
\* type_length <= 8 and a payload_length between 1 and 199
RecordHeaderAt(d, i) ==
    /\ i + 2 < Len(d)
    /\ TNF(At(d, i)) <= 6
    /\ ShortRecord(At(d, i))
    /\ At(d, i + 1) <= 8
    /\ 0 < At(d, i + 2) /\ At(d, i + 2) < 200

HeaderOffsets(d) == { i \in 0..(Len(d) - 1) : RecordHeaderAt(d, i) }

\* the header offsets that have at least one byte behind the three header bytes
HeaderOffsetsWithBody(d) == { i \in HeaderOffsets(d) : i + 3 < Len(d) }

\* total_size = 3 + type_length + payload_length of the header at offset i
TotalSize(d, i) == 3 + At(d, i + 1) + At(d, i + 2)

\* the scan step, given the offsets it has to choose from: the lowest one becomes
\* the record start, with its total size, and the inner-TLV scan leaves no
\* trace; without an offset the direct-record strategy is not entered
DirectScan(offsets) ==
    pc = "scan" =>
        IF offsets # {}
            THEN /\ pc' \in {"extra", "extract"}
                 /\ record_start' = SetMin(offsets)
                 /\ expected_total_size' = TotalSize(data, SetMin(offsets))
                 /\ combined_inner_data' = << >> /\ found_inner_tlv' = FALSE
            ELSE pc' \notin {"extra", "extract"}

\* the return of a run that used the direct-record strategy: a payload that
\* begins with a record header of the total size found and is not longer than it
DirectEmits ==
    (pc \in {"complete", "complete_read"} /\ pc' = "returned" /\ HeaderOffsetsWithBody(data) # {})
        => /\ ret' = "payload"
           /\ Len(data') <= expected_total_size
           /\ RecordHeaderAt(data', 0)
           /\ TotalSize(data', 0) = expected_total_size

\* C19 as stated: every offset of the trimmed payload that holds a record
\* header is considered, the lowest one is selected, and whenever there is one
\* the direct-record strategy is used.
C19_Original == [][DirectScan(HeaderOffsets(data)) /\ DirectEmits]_vars

\* C19: the scan considers the offsets i with i + 3 < size, i.e. the record
\* headers followed by at least one more byte; it selects the lowest of them,
\* total_size is 3 + type_length + payload_length of that offset, the inner-TLV
\* scan is not used when there is one, and the payload emitted has a record
\* header of that total size at its start and at most total_size bytes.  A
\* header in the last three bytes of the payload is not seen.
C19_DirectRecord == [][DirectScan(HeaderOffsetsWithBody(data)) /\ DirectEmits]_vars

\* a payload 00 00 D1 01 08 54 ... with headers at the offsets 2 and 5: the
\* record start is 2
C19_Witness ==
    /\ pc = "extract" /\ tag = 15
    /\ HeaderOffsetsWithBody(data) = {2, 5}
    /\ record_start = 2 /\ expected_total_size = 12

\* the run uses the direct-record strategy (the buffer holds a record header)
DirectUsed == HeaderOffsetsWithBody(data) # {}

\* the bytes of the record that the buffer does not hold
Missing == expected_total_size - (Len(data) - record_start)

\* d begins with the bytes of e
Extends(d, e) == Len(d) >= Len(e) /\ SubSeq(d, 1, Len(e)) = e

\* the sizes of the reads that follow a failed extra read
FallbackSizes == <<64, 32, 16>>

\* C20 as stated: the extra read is the only further page read of the event,
\* whether it succeeds or fails: after it the record is sliced and emitted.
C20_Original ==
    [][/\ pc = "extra" => pc' = "extract"
       /\ (pc = "complete" /\ DirectUsed) => pc' = "returned"]_vars

\* C20: when the record found is longer than the bytes held from its start, one
\* read of the missing bytes plus 64 is issued.  If it succeeds the record is
\* complete and no further read follows.  If it fails, reads of 64, 32 and 16
\* bytes follow, each appended when it succeeds, until the record is complete
\* or the three are used up; if the record is then still short and the buffer
\* holds fewer than 200 bytes, one more read (missing bytes plus 50) follows.
\* What is emitted is the complete record, or else the partial bytes from the
\* record start.
C20_ExtraReadThenFallback ==
    [][/\ pc = "scan" =>
            (pc' = "extra" <=>
                /\ HeaderOffsetsWithBody(data) # {}
                /\ TotalSize(data, SetMin(HeaderOffsetsWithBody(data)))
                     > Len(data) - SetMin(HeaderOffsetsWithBody(data)))
       /\ pc = "extra" =>
            \/ /\ pc' = "extract"
               /\ Extends(data', data)
               /\ Len(data') = Len(data) + Missing + 64
               /\ read_failed' = read_failed
            \/ /\ pc' = "fallback"
               /\ data' = data
               /\ chunk_idx' = 1
               /\ read_failed'
       /\ pc = "fallback" =>
            /\ chunk_idx \in 1..3
            /\ Missing > 0
            /\ \/ Extends(data', data) /\ Len(data') = Len(data) + FallbackSizes[chunk_idx]
               \/ data' = data /\ read_failed'
            /\ IF Len(data') - record_start >= expected_total_size \/ chunk_idx = 3
                 THEN pc' = "extract"
                 ELSE pc' = "fallback" /\ chunk_idx' = chunk_idx + 1
       /\ pc = "extract" =>
            /\ pc' = "complete"
            /\ data' = data
            /\ combined_inner_data' =
                 Slice(data, record_start,
                       record_start + Min(expected_total_size, Len(data) - record_start))
       /\ (pc = "complete" /\ DirectUsed) =>
            /\ pc' = "complete_read" <=>
                 (Len(combined_inner_data) < expected_total_size /\ Len(data) < 200)
            /\ pc' = "complete_read" => read_failed
            /\ pc' = "returned" => data' = combined_inner_data
       /\ (pc = "complete_read" /\ DirectUsed /\ pc' = "returned") =>
            \/ data' = combined_inner_data
            \/ Len(data') = expected_total_size /\ RecordHeaderAt(data', 0)]_vars

\* the extra read and the three fallback reads have failed: the record is still
\* at its 6 of 36 bytes and one more read is about to be issued
C20_Witness ==
    /\ pc = "complete_read" /\ tag = 12
    /\ read_failed /\ chunk_idx = 3
    /\ Len(data) = 6 /\ record_start = 0 /\ expected_total_size = 36
    /\ combined_inner_data = data

(***************************************************************************)
(* The inner-TLV scan.                                                     *)
(***************************************************************************)
\* the candidates of the inner-TLV scan of d, in discovery order
Candidates(d) == InnerScan(d, 0, << >>, 0).tlvs

\* the total size that the short-record header of candidate c declares, 0 if c
\* does not begin with such a header
HeaderSize(c) ==
    IF Len(c) >= 4 /\ TNF(At(c, 0)) <= 6 /\ ShortRecord(At(c, 0)) /\ At(c, 1) <= 8
        THEN 3 + At(c, 1) + At(c, 2)
        ELSE 0

\* C21 as stated: the inner-TLV scan takes the declared total size from the header
\* of the first candidate only, and concatenates later candidates only if that
\* size exceeds the first candidate's length.
C21_Original ==
    [][(pc = "scan" /\ pc' = "complete" /\ found_inner_tlv')
        => LET tlvs == Candidates(data)
               declared == HeaderSize(tlvs[1])
           IN  /\ expected_total_size' = declared
               /\ combined_inner_data' = CombineTlvs(tlvs, declared)]_vars

(***************************************************************************)
(* The indices read by the two scans.                                      *)
(***************************************************************************)
\* C27 as stated: for every trimmed payload of at least one byte, the lengths 1,
\* 2 and 3 included, the direct-record scan and the inner-TLV scan read only
\* indices below the length of the buffer and visit at most that many offsets.
C27_Original ==
    [][(pc = "scan" /\ Len(data) >= 1)
        => /\ ~BoundWraps(Len(data))
           /\ pc' # "crashed"]_vars

(***************************************************************************)
(* The record-boundary stage as a whole.                                   *)
(***************************************************************************)
\* the positions of the record-boundary stage
RecordStage == {"scan", "extra", "fallback", "extract", "complete", "complete_read"}

\* the return hands over a payload: the data as trimmed when nothing was found,
\* and else combined_inner_data, whole or cut to the expected size, or the
\* complete record found by the completion read
EmitsReconstruction ==
    /\ ret' = "payload"
    /\ (~found_inner_tlv) => (pc = "complete" /\ data' = data)
    /\ found_inner_tlv
         => (\/ data' = combined_inner_data
             \/ data' = Resize(combined_inner_data, expected_total_size)
             \/ (/\ pc = "complete_read"
                 /\ Len(data') = expected_total_size
                 /\ IsRecordAt(data', 0)))

\* C22 as stated: after the trim the record-boundary stage never aborts and
\* always returns a payload: the trimmed payload, unchanged, if neither scan has
\* found a candidate, and else the bytes that the strategy has reconstructed.
C22_Original ==
    [][(pc \in RecordStage)
        => (/\ pc' \in RecordStage \cup {"returned"}
            /\ (pc' = "returned") => EmitsReconstruction)]_vars

(***************************************************************************)
(* The checksum cut and the first line.                                    *)
(***************************************************************************)
\* the positions (from 0) at which "CRC" stands in text
CrcStarts(text) ==
    { i \in 0..(Len(text) - 3) : At(text, i) = "C" /\ At(text, i + 1) = "R" /\ At(text, i + 2) = "C" }

\* text up to the first "CRC"
BeforeCrc(text) ==
    IF CrcStarts(text) = {} THEN text ELSE SubSeq(text, 1, SetMin(CrcStarts(text)))

\* C23: nothing from the first "CRC" on contributes; the text before it is read
\* in its CRLF-terminated lines, the first of which becomes the "Name" and is
\* never read as a key/value line, and every later line is classified.
C23_CrcCutAndName ==
    (Decoded /\ ReportLineCount(BeforeCrc(payload)) >= 1) =>
        /\ published.json = ExpectedJson(BeforeCrc(payload))
        /\ \E i \in 0..Len(published.json) :
             MatchesAt(published.json,
                       <<"{">> \o JsonMember(<<"N", "a", "m", "e">>, ReportLine(payload, 1)), i)
        /\ published.volume.has <=>
             (/\ VolCandidate(BeforeCrc(payload)) # << >>
              /\ IsDecimal(Unitless(VolCandidate(BeforeCrc(payload)))))

\* a report has been decoded whose first line has the form of a key/value line
\* and whose checksum is followed by a line that would be classified
C23_Witness ==
    /\ Decoded
    /\ CrcStarts(payload) # {}
    /\ ReportLineCount(BeforeCrc(payload)) >= 2
    /\ LineKind(ReportLine(payload, 1)) # "ignored"
    /\ \E k \in 2..ReportLineCount(payload) :
         /\ ReportEnd(payload, k) > SetMin(CrcStarts(payload))
         /\ LineKind(ReportLine(payload, k)) # "ignored"
    /\ published.json = ExpectedJson(BeforeCrc(payload))
    /\ published.json # ExpectedJson(payload)

(***************************************************************************)
(* Payloads without a usable line.                                         *)
(***************************************************************************)
\* C24 as stated: the JSON is published for every payload with at least one
\* usable line, and nothing is published exactly when the payload has none, as
\* for a non-empty payload without a CRLF-terminated line.
C24_Original ==
    Decoded =>
        /\ (published.json # << >>) <=> (ReportLineCount(BeforeCrc(payload)) >= 1)
        /\ published.json = << >> => (published = NoCalls /\ water_meter_json = << >>)

(***************************************************************************)
(* The serial number in lower case.                                        *)
(***************************************************************************)
\* each capital letter of ASCII with its small letter
CasePairs ==
    { <<"A", "a">>, <<"B", "b">>, <<"C", "c">>, <<"D", "d">>, <<"E", "e">>, <<"F", "f">>, <<"G",
      "g">>, <<"H", "h">>, <<"I", "i">>, <<"J", "j">>, <<"K", "k">>, <<"L", "l">>, <<"M", "m">>,
      <<"N", "n">>, <<"O", "o">>, <<"P", "p">>, <<"Q", "q">>, <<"R", "r">>, <<"S", "s">>, <<"T",
      "t">>, <<"U", "u">>, <<"V", "v">>, <<"W", "w">>, <<"X", "x">>, <<"Y", "y">>, <<"Z", "z">> }

\* the small letter of a capital letter, and every other character itself
SmallOf(c) == IF \E p \in CasePairs : p[1] = c THEN (CHOOSE p \in CasePairs : p[1] = c)[2] ELSE c

\* the S/N lines after the first line of text
SerialLines(text) ==
    { k \in 2..ReportLineCount(text) : LineKind(ReportLine(text, k)) = "sn" }

\* serial_number: the value of the last S/N line before the checksum
SerialNumber(text) ==
    IF SerialLines(BeforeCrc(text)) = {}
        THEN << >>
        ELSE LineValue(ReportLine(BeforeCrc(text), SetMax(SerialLines(BeforeCrc(text)))))

\* C25: the serial number in lower case has the length of the serial number, has
\* at each position the small letter for a capital letter 'A'..'Z' and the same
\* character otherwise, and is left as it is by the same mapping.
C25_LowerCaseSerial ==
    Decoded =>
        /\ Len(published.isn) = Len(SerialNumber(payload))
        /\ \A k \in 1..Len(published.isn) : published.isn[k] = SmallOf(SerialNumber(payload)[k])
        /\ Lowered(published.isn) = published.isn
        /\ \A k \in 1..Len(published.isn) : SmallOf(published.isn[k]) = published.isn[k]

\* a serial number with 'A', 'Z', small letters and the characters next to them
\* in ASCII has been put in lower case
C25_Witness ==
    /\ Decoded
    /\ SerialNumber(payload) = <<"@", "A", "Z", "[", "a", "z", "{">>
    /\ published.isn = <<"@", "a", "z", "[", "a", "z", "{">>

(***************************************************************************)
(* A successful call of the page reader.                                   *)
(***************************************************************************)
\* n / d rounded up
CeilDiv(n, d) == CHOOSE q \in 0..n : d * q >= n /\ d * (q - 1) < n

\* C26: a call that succeeds issues ceil(n/16) exchanges, the i-th (from 0) for
\* page start_page + 4 i; each appends the next 16 tag bytes, the last one only
\* the n mod 16 that remain when n is no multiple of 16; the bytes that were in
\* the vector stay, and n bytes have been appended in all.
C26_SuccessfulRead ==
    /\ [][(pc = "read")
            => LET i == chunk_idx
                   n == target_read_length
                   page == current_page + 4 * i
               IN  /\ (pc' = "read")
                        => (/\ i < CeilDiv(n, 16)
                            /\ chunk_idx' = i + 1
                            /\ data' = data \o TagBytes(tag, 4 * (page - 3), Min(16, n - 16 * i))
                            /\ (i = CeilDiv(n, 16) - 1 /\ n % 16 # 0)
                                 => Len(data') - Len(data) = n % 16)
                   /\ (pc' = "read_true")
                        => (i = CeilDiv(n, 16) /\ data' = data)]_vars
    /\ [](pc = "read_true"
            => \E buf \in {<< >>, SubSeq(TagImage(tag), 1, 16)} :
                 data = buf \o TagBytes(tag, 4 * (current_page - 3), target_read_length))

\* 94 bytes have been read from page 7 of the tag whose pages all differ, behind
\* the 16 bytes that were in the vector: six exchanges, the last one for 14 bytes
C26_Witness ==
    /\ pc = "read_true"
    /\ tag = 18
    /\ current_page = 7
    /\ target_read_length = 94
    /\ chunk_idx = 6
    /\ Len(data) = 16 + 94
    /\ SubSeq(data, 1, 16) = SubSeq(TagImage(18), 1, 16)
    /\ data[17] = TagImage(18)[17] /\ data[110] = TagImage(18)[110]

(***************************************************************************)
(* Termination of an attempt.                                              *)
(***************************************************************************)
\* C28 as stated: every attempt to read a tag, whatever the tag holds and
\* whichever exchanges fail, comes to its end after finitely many exchanges and
\* returns a tag, with or without payload.
C28_Original == (pc \in ReaderPositions) ~> (pc = "returned")

(***************************************************************************)
(* Writing a message and locating it again.                                *)
(***************************************************************************)
\* C29 as stated: for every message length from 1 to 924 the header that the
\* writer puts at page 4 is located with that length, the payload starting
\* behind the header: at offset 2 below 255 and at offset 4 from 255 on.
C29_Original ==
    [][(pc = "locate")
        => /\ pc' = "located"
           /\ message_length' = message_length
           /\ message_start_index' = Len(TlvHeader(message_length))
           /\ message_start_index' = IF message_length < 255 THEN 2 ELSE 4]_vars

(***************************************************************************)
(* The two sensors over a sequence of tag events.                          *)
(***************************************************************************)
\* the run of the lambda that ends in this step publishes the JSON
Republishes == pc = "returned" /\ pc' = "idle" /\ published'.json # << >>

\* the report texts whose Vol value, taken without its unit, is a number
NumericTexts ==
    { text \in PayloadTexts :
        /\ VolCandidate(BeforeCrc(text)) # << >>
        /\ IsDecimal(Unitless(VolCandidate(BeforeCrc(text)))) }

\* the JSON of each report text
ReportJson == [text \in PayloadTexts \ {<< >>} |-> ExpectedJson(BeforeCrc(text))]

\* the Vol value of the text decoded in this step is a number
VolIsNumber == payload' \in NumericTexts

\* C30 as stated: whenever the JSON is published again, the numeric volume is
\* published again in the same event, with the number of that JSON's Vol, so the
\* volume is never that of an older reading than the JSON.
C30_Original ==
    [][Republishes
        => /\ water_meter_json' = published'.json
           /\ published'.volume.has
           /\ water_volume' = published'.volume]_vars

\* C30: an event that publishes the JSON sets the JSON sensor to it; it
\* publishes the numeric volume too, and sets the volume sensor to it, exactly
\* when the text has a Vol value that is a number; otherwise the volume sensor
\* keeps the state it had, which may be that of an older reading.  (The one
\* report text with a number has "Vol: 1.5 m3": the sensor then shows 1.500.)
C30_VolumeMayLag ==
    [][Republishes
        => /\ water_meter_json' = published'.json
           /\ published'.json = ReportJson[payload']
           /\ IF VolIsNumber
                THEN /\ published'.volume.has
                     /\ water_volume' = published'.volume
                     /\ water_volume'.milli = 1500 /\ ~water_volume'.negative
                ELSE /\ ~published'.volume.has
                     /\ water_volume' = water_volume]_vars

\* the JSON sensor shows a reading with "Vol: N/A" while the volume sensor still
\* shows the 1.5 of an older reading
C30_Witness ==
    /\ Decoded
    /\ VolCandidate(payload) = <<"N", "/", "A">>
    /\ water_meter_json = ReportJson[payload]
    /\ published.json = water_meter_json
    /\ ~published.volume.has
    /\ water_volume.has
    /\ water_volume.milli = 1500
    /\ \E text \in NumericTexts : Unitless(VolCandidate(text)) = <<"1", ".", "5">>

=============================================================================
